---- MODULE Spec2Model ----
(***************************************************************************)
(* Verification model of v2cc.                                             *)
(*                                                                         *)
(* Part I  : the V2A session-mode state machine (src/unnamed/part_006):    *)
(*           mode OFF/DETECT/ACTIVE, the two auto-OFF timers, the          *)
(*           microphone gate, the dispatch gate and the asynchronous       *)
(*           target-list refresh.                                          *)
(* Part II : the voice agent's utterance queue (src/voice-agent.js):       *)
(*           enqueueUtterance / processQueue / runTurn.                    *)
(*                                                                         *)
(* Time is counted in ticks of TICK_MS milliseconds.  An expiry timestamp  *)
(* (Date.now() + timeout) is held as the number of ticks that remain until *)
(* it, so that the model has no absolute clock.                            *)
(***************************************************************************)
EXTENDS Integers, Sequences, FiniteSets, Bags, TLC

VARIABLES
  \* ---- part_006: the `state` object of main()
  mode, targets, targetIndex, partialText, closing, sendCount,
  detectModeExpiresAt, transcriptTimeoutExpiresAt,
  \* ---- part_006: closure variables of main()
  ws, mic, detectAutoOffTimer, transcriptAutoOffTimer, statusCountdownInterval,
  targetInterval,
  \* ---- part_006: what the UI shows in its message line
  message,
  \* ---- part_006: asynchronous operations in flight
  mainPc,            \* where main() is suspended
  refreshesInFlight, \* refreshTargets calls awaiting fetchSendTargets
  sendsInFlight,     \* handleFinalTranscript calls awaiting sendToTarget
  \* ---- voice-agent.js: the utterance queue
  pendingUtterances, processingQueue, loops, nextUtterance, turnLog,
  conversation,
  \* ---- voice-agent.js: final transcripts whose handleFinalTranscript awaits
  \* logMeetingNote
  nextTranscript, notesInFlight, arrivalOf,
  \* ---- voice-agent.js: the history limit read from the environment, and
  \* the non-system items that SpecPrune has handed to addToConversation
  \* (kept for the statement of the pruning result)
  MAX_HISTORY_ITEMS, added,
  \* ---- playback-queue (part_003): the fields of the PlaybackQueue, the
  \* activations of process() suspended in ttsClient.synthesize, the number
  \* of the next accepted utterance
  enabled, queue, processing, stopped, synths, nextItem,
  \* ---- what has gone out: the speech requests started (tts-client.js) and
  \* the calls of audioPlayer.enqueue, each as <<utterance, segment>>
  requested, played,
  \* ---- voice-agent.js: the shutdown; finalizePc, code and attempted are
  \* finalize's position, its `code` and the cleanup steps it has started
  shuttingDown, realtimeSocket, readyState, browserWsServer, finalizePc, code,
  attempted, exitCode, cleanupRuns, requests,
  \* ---- part_000: the fields of the AudioPlayer (started and stopped under
  \* the names playerStarted and playerStopped) and the module's
  \* portAudioInitialized
  buffers, bufferOffset, timer, idleTimestamp, playerStarted, playerStopped,
  prefillTimer, portAudioInitialized, prefillSamples, thrown, calls, pushed,
  notified, idleFor,
  \* ---- tts-client.js: the limits of the segmenter, a text and the segments
  \* splitIntoSegments made of it
  MAX_SEGMENT_CHARS, TARGET_SEGMENT_CHARS, ttsText, pieces, segments, splitDone,
  \* ---- extractTranscript: a payload and the transcript taken from it
  payload, nodes, transcript, extracted,
  \* ---- voice-agent.js: the partial transcript last shown, the texts handed
  \* to handleFinalTranscript, the lines logged as final, the calls of
  \* processTranscriptPayload and what the last of them returned
  lastPartialTranscript, handed, speechFinal, payloads, handled,
  \* ---- part_000: a PCM16 buffer, the rates it is resampled from and to,
  \* what normalize or resampleLinear made of it, and which of them it was
  pcm, pcmRates, pcmOut, pcmOp,
  \* ---- voice-agent.js: the TODO store (todoState), the file todos.json,
  \* the calls of ensureTodosLoaded, addTodo and removeTodo with the await each
  \* is suspended in, the todos addTodo has returned, the ids removeTodo has
  \* removed, and the ids addTodo has given out
  todoState, todoFile, todoCalls, todoReturned, todoRemoved, todoAssigned

modeVars == <<mode, targets, targetIndex, partialText, closing, sendCount,
              detectModeExpiresAt, transcriptTimeoutExpiresAt, ws, mic,
              detectAutoOffTimer, transcriptAutoOffTimer,
              statusCountdownInterval, targetInterval, message, mainPc,
              refreshesInFlight, sendsInFlight>>

\* what the arrival and enqueueing of utterances write
inputVars == <<nextUtterance, nextTranscript, notesInFlight, arrivalOf>>

pruneVars == <<MAX_HISTORY_ITEMS, added>>

turnVars == <<pendingUtterances, processingQueue, loops, turnLog, conversation,
              inputVars, pruneVars>>

\* the PlaybackQueue and the TtsClient.synthesize calls it makes
playVars == <<enabled, queue, processing, stopped, synths, nextItem, requested,
              played>>

\* the shutdown of the voice agent
shutVars == <<shuttingDown, realtimeSocket, readyState, browserWsServer,
              finalizePc, code, attempted, exitCode, cleanupRuns, requests>>

\* what Parts I to III leave alone
\* the AudioPlayer; calls is the log of the calls of its enqueue and shutdown
audioVars == <<buffers, bufferOffset, timer, idleTimestamp, playerStarted,
               playerStopped, prefillTimer, portAudioInitialized, prefillSamples,
               thrown, calls, pushed, notified, idleFor>>

\* the segmenter: its limits, the text handed to it, the number of pieces the
\* text was put together from, and the segments it returned
segmenterVars == <<MAX_SEGMENT_CHARS, TARGET_SEGMENT_CHARS, ttsText, pieces,
                   segments, splitDone>>

\* extractTranscript: a payload, the number of steps it was put together in,
\* and what extractTranscript returned for it
payloadVars == <<payload, nodes, transcript, extracted>>

agentVars == <<lastPartialTranscript, handed, speechFinal, payloads, handled>>

pcmVars == <<pcm, pcmRates, pcmOut, pcmOp>>

\* what the parts after the transcript classification add
todoVars == <<todoState, todoFile, todoCalls, todoReturned, todoRemoved,
              todoAssigned>>

otherVars == <<pcmVars, todoVars>>

extVars == <<shutVars, audioVars, segmenterVars, payloadVars, agentVars,
             otherVars>>

vars == <<modeVars, turnVars, playVars, extVars>>

(***************************************************************************)
(* Bounds of the model.                                                    *)
(***************************************************************************)
\* refreshTargets calls that may await their fetch at the same time
MaxRefreshInFlight == 1
\* handleFinalTranscript calls that may await sendToTarget at the same time
MaxSendInFlight == 1
\* forwarded frames counted before the model stops counting
MaxSendCount == 1
\* utterances enqueued in one run
MaxUtterances == 2
\* tool calls in one backend response
MaxToolCalls == 1
\* processQueue activations the events range over
MaxLoops == 2
\* the largest history limit tried, and the messages added under it
MaxHistoryLimit == 4
MaxAdded == 6

\* utterances the playback queue accepts, segments of one text, activations
\* of process() looked at
MaxPlayback == 3

MaxSegments == 2

MaxSynths == 2

\* SIGINT and SIGTERM deliveries
MaxSignals == 2

\* calls of AudioPlayer.enqueue and of AudioPlayer.shutdown
MaxBuffers == 3

MaxShutdowns == 2

\* lengths and sample rates of the segments handed to AudioPlayer.enqueue
SampleCounts == {0, 1, 1000, 1920}

SampleRates == {0, 24000, 48000}

\* pieces a text for the segmenter is put together from
MaxPieces == 4

\* steps a payload for extractTranscript is put together in
MaxNodes == 5

\* calls of processTranscriptPayload
MaxPayloads == 2

\* samples of a buffer handed to normalize or to resampleLinear
MaxSamples == 3

\* calls of the TODO store in one behaviour
MaxTodoCalls == 3

(***************************************************************************)
(* Program constants.                                                      *)
(***************************************************************************)
DETECT_AUTO_OFF_TIMEOUT_MS == 3 * 60 * 1000
TRANSCRIPT_AUTO_OFF_TIMEOUT_MS == 5 * 60 * 1000
\* the model's unit of time
TICK_MS == 60 * 1000
DetectTicks == DETECT_AUTO_OFF_TIMEOUT_MS \div TICK_MS
TranscriptTicks == TRANSCRIPT_AUTO_OFF_TIMEOUT_MS \div TICK_MS

MODE_SEQUENCE == <<"off", "detect", "active">>
PARTIAL_STAGE_HINTS == {"partial", "delta", "updated", "created", "in_progress"}
FINAL_STAGE_HINTS == {"completed", "complete", "final", "finished", "done"}

\* JavaScript null, for the expiry timestamps
NULL == -1

\* src/voice-agent.js, with the environment's defaults
MAX_TOOL_ITERATIONS == 3

PLAYBACK_SAMPLE_RATE == 24000

BLOCK_SIZE == 960

PREFILL_MS == 100

PREFILL_SAMPLES == (PLAYBACK_SAMPLE_RATE * PREFILL_MS) \div 1000

DEFAULT_HISTORY_LIMIT == 20

IDLE_TIMEOUT_MS == 250

\* the peak normalize scales a buffer to
NORMALIZE_PEAK == 30000

\* the least and the greatest sample of an Int16Array
INT16_MIN == -32768
INT16_MAX == 32767

\* the length up to which mergeShortSegments merges a segment into the one
\* before it
SHORT_SEGMENT_CHARS == 10

(***************************************************************************)
(* Text.  A string is a sequence of characters; a character is named by a  *)
(* short ASCII string ("de" and "su" name the two kana of the polite       *)
(* ending, "maru" the ideographic full stop).                              *)
(***************************************************************************)
WHITESPACE == {" ", "nl"}
\* [。．.?!！？、，]
TRAILING_PUNCTUATION ==
  {"maru", "fwperiod", ".", "?", "!", "fwbang", "fwquestion", "ten", "fwcomma"}
\* [A-Za-z0-9]
LATIN_ENDING == {
  "A", "B", "C", "D", "E", "F", "G", "H", "I", "J", "K", "L", "M", "N",
  "O", "P", "Q", "R", "S", "T", "U", "V", "W", "X", "Y", "Z", "a", "b",
  "c", "d", "e", "f", "g", "h", "i", "j", "k", "l", "m", "n", "o", "p",
  "q", "r", "s", "t", "u", "v", "w", "x", "y", "z", "0", "1", "2", "3",
  "4", "5", "6", "7", "8", "9"}
POLITE_BASE_ENDINGS ==
  { <<"de", "su">>,                              \* desu
    <<"de", "shi", "ta">>,                        \* deshita
    <<"de", "shi", "xyo", "u">>,                  \* deshou
    <<"de", "shi", "xyo">>,                       \* desho
    <<"ma", "su">>,                              \* masu
    <<"ma", "shi", "ta">>,                        \* mashita
    <<"ma", "se", "n">>,                          \* masen
    <<"ma", "se", "n", "de", "shi", "ta">> }      \* masendeshita
POLITE_SUFFIXES == { <<"ne">>, <<"yo">>, <<"yo", "ne">> }
POLITE_QUESTION_SUFFIXES == { <<"ka">>, <<"ka", "ne">>, <<"ka", "shi", "ra">> }
JAPANESE_POLITE_ENDINGS ==
  POLITE_BASE_ENDINGS \cup
  { base \o suffix : base \in POLITE_BASE_ENDINGS,
                     suffix \in POLITE_SUFFIXES \cup POLITE_QUESTION_SUFFIXES }

RECURSIVE trimStart(_)
trimStart(t) ==
  IF t # <<>> /\ Head(t) \in WHITESPACE THEN trimStart(Tail(t)) ELSE t

RECURSIVE trimEnd(_)
trimEnd(t) ==
  IF t # <<>> /\ t[Len(t)] \in WHITESPACE
    THEN trimEnd(SubSeq(t, 1, Len(t) - 1))
    ELSE t

trim(t) == trimEnd(trimStart(t))

endsWith(t, e) ==
  /\ Len(e) <= Len(t)
  /\ SubSeq(t, Len(t) - Len(e) + 1, Len(t)) = e

hasJapanesePoliteEnding(t) == \E e \in JAPANESE_POLITE_ENDINGS : endsWith(t, e)

\* a rule that knows the ASCII period only
ensureTrailingPunctuation_asciiOnly(text) ==
  IF text = <<>> THEN text
  ELSE LET trimmed == trim(text) IN
    IF trimmed = <<>> THEN trimmed
    ELSE IF trimmed[Len(trimmed)] \in TRAILING_PUNCTUATION THEN trimmed
    ELSE IF hasJapanesePoliteEnding(trimmed) THEN Append(trimmed, ".")
    ELSE IF trimmed[Len(trimmed)] \in LATIN_ENDING THEN Append(trimmed, ".")
    ELSE trimmed

ensureTrailingPunctuation(text) ==
  IF text = <<>> THEN text
  ELSE LET trimmed == trim(text) IN
    IF trimmed = <<>> THEN trimmed
    ELSE IF trimmed[Len(trimmed)] \in TRAILING_PUNCTUATION THEN trimmed
    ELSE IF hasJapanesePoliteEnding(trimmed) THEN Append(trimmed, "maru")
    ELSE IF trimmed[Len(trimmed)] \in LATIN_ENDING THEN Append(trimmed, ".")
    ELSE trimmed

\* String.prototype.toLowerCase on the stage hints the model feeds in
toLowerCase(stage) ==
  CASE stage = "COMPLETED" -> "completed"
    [] stage = "Delta" -> "delta"
    [] OTHER -> stage

(***************************************************************************)
(* Part I.  The session-mode state machine of part_006.                    *)
(*                                                                         *)
(* The handlers are written as functions from the program state (a record  *)
(* of the state object and the closure variables of main) to the state     *)
(* they leave, so that a handler that calls another composes with it.      *)
(***************************************************************************)
\* the target ids list_targets reports when no claude or codex tab is open,
\* in the order in which it reports them
TARGET_ORDER == <<"obsidian", "terminal_frontmost">>

isTarget(id, ids) == id \in ids

\* the lists fetchSendTargets can return: each target at most once, in the
\* script's order (the empty list also when the script fails)
TargetLists ==
  { SelectSeq(TARGET_ORDER, LAMBDA id : isTarget(id, ids)) :
      ids \in SUBSET { TARGET_ORDER[i] : i \in 1 .. Len(TARGET_ORDER) } }

\* what extractTranscript hands on: the empty string or a trimmed text
Transcripts == { <<>>, <<"h", "i">> }
StageHints == { "completed", "COMPLETED", "delta", "failed" }

\* targets[index]?.id with a JavaScript (0-based) index; "" stands for
\* undefined
idAt(list, index) ==
  IF index >= 0 /\ index < Len(list) THEN list[index + 1] ELSE ""

\* Array.prototype.findIndex(target => target.id === id), 0-based, -1 if none
findIndex(list, id) ==
  IF \E i \in 1 .. Len(list) : list[i] = id
    THEN (CHOOSE i \in 1 .. Len(list) :
            list[i] = id /\ \A j \in 1 .. i - 1 : list[j] # id) - 1
    ELSE -1

State ==
  [ mode |-> mode, targets |-> targets, targetIndex |-> targetIndex,
    partialText |-> partialText, closing |-> closing, sendCount |-> sendCount,
    detectModeExpiresAt |-> detectModeExpiresAt,
    transcriptTimeoutExpiresAt |-> transcriptTimeoutExpiresAt,
    ws |-> ws, mic |-> mic,
    detectAutoOffTimer |-> detectAutoOffTimer,
    transcriptAutoOffTimer |-> transcriptAutoOffTimer,
    statusCountdownInterval |-> statusCountdownInterval,
    targetInterval |-> targetInterval, message |-> message ]

Becomes(s) ==
  /\ mode' = s.mode
  /\ targets' = s.targets
  /\ targetIndex' = s.targetIndex
  /\ partialText' = s.partialText
  /\ closing' = s.closing
  /\ sendCount' = s.sendCount
  /\ detectModeExpiresAt' = s.detectModeExpiresAt
  /\ transcriptTimeoutExpiresAt' = s.transcriptTimeoutExpiresAt
  /\ ws' = s.ws
  /\ mic' = s.mic
  /\ detectAutoOffTimer' = s.detectAutoOffTimer
  /\ transcriptAutoOffTimer' = s.transcriptAutoOffTimer
  /\ statusCountdownInterval' = s.statusCountdownInterval
  /\ targetInterval' = s.targetInterval
  /\ message' = s.message

\* The messages that give the reason of a mode change.  The message line is
\* kept exactly for these; every other text is shown as "info".
MODE_MESSAGES ==
  { "detectStarted", "sendStarted", "sendStopped", "noTargetsBackToOff",
    "selectTargetBackToOff", "detectTimedOut", "transcriptTimedOut",
    "backToDetect", "micStartFailed" }

\* ui.setMessage(message); the empty tag stands for null
setMessage(s, msg) ==
  [s EXCEPT !.message = IF msg \in MODE_MESSAGES THEN msg ELSE "info"]

setMessageIf(s, msg) == IF msg # "" THEN setMessage(s, msg) ELSE s

stopMic(s) == IF ~s.mic THEN s ELSE [s EXCEPT !.mic = FALSE]

\* a stop of the countdown that looks at the DETECT timer alone
stopStatusCountdownIntervalIfIdle_detectOnly(s) ==
  IF s.detectAutoOffTimer = "null" /\ s.statusCountdownInterval
    THEN [s EXCEPT !.statusCountdownInterval = FALSE]
    ELSE s

stopStatusCountdownIntervalIfIdle(s) ==
  IF /\ s.detectAutoOffTimer = "null"
     /\ s.transcriptAutoOffTimer = "null"
     /\ s.statusCountdownInterval
    THEN [s EXCEPT !.statusCountdownInterval = FALSE]
    ELSE s

clearDetectAutoOffTimer(s) ==
  stopStatusCountdownIntervalIfIdle(
    [s EXCEPT !.detectAutoOffTimer = "null", !.detectModeExpiresAt = NULL])

clearTranscriptAutoOffTimer(s) ==
  stopStatusCountdownIntervalIfIdle(
    [s EXCEPT !.transcriptAutoOffTimer = "null",
              !.transcriptTimeoutExpiresAt = NULL])

ensureStatusCountdownInterval(s) == [s EXCEPT !.statusCountdownInterval = TRUE]

scheduleDetectAutoOff(s) ==
  ensureStatusCountdownInterval(
    [clearDetectAutoOffTimer(s) EXCEPT !.detectModeExpiresAt = DetectTicks,
                                       !.detectAutoOffTimer = "pending"])

scheduleTranscriptAutoOff(s) ==
  LET c == clearTranscriptAutoOffTimer(s) IN
  IF c.mode = "off" THEN c
  ELSE ensureStatusCountdownInterval(
         [c EXCEPT !.transcriptTimeoutExpiresAt = TranscriptTicks,
                   !.transcriptAutoOffTimer = "pending"])

\* transcript activity that leaves the inactivity timeout as it is
noteTranscriptActivity_noRestart(s) == s


noteTranscriptActivity(s) ==
  IF s.mode = "off" THEN s ELSE scheduleTranscriptAutoOff(s)

\* cleanup ends in process.exit: nothing runs after it
cleanup(s) ==
  IF s.closing THEN s
  ELSE LET c == stopMic(clearTranscriptAutoOffTimer(clearDetectAutoOffTimer(
                  [s EXCEPT !.closing = TRUE, !.targetInterval = FALSE])))
       IN [c EXCEPT !.ws = IF c.ws = "open" THEN "closed" ELSE c.ws]

\* micOk: whether record.record() succeeds
startMic(s, micOk) ==
  IF s.mic THEN s
  ELSE IF ~micOk THEN cleanup(setMessage(s, "micStartFailed"))
  ELSE [s EXCEPT !.mic = TRUE]

\* a partial transcript that is shown in OFF as well
updatePartialTranscript_anyMode(s, raw) ==
  IF raw # s.partialText THEN [s EXCEPT !.partialText = raw] ELSE s

updatePartialTranscript(s, raw) ==
  LET text == IF s.mode = "off" THEN <<>> ELSE raw IN
  IF text # s.partialText THEN [s EXCEPT !.partialText = text] ELSE s

\* an applyMode that does not arm the DETECT timeout on entering DETECT
applyMode_noDetectTimeout(s, newMode, msg, micOk) ==
  IF \A i \in 1 .. Len(MODE_SEQUENCE) : MODE_SEQUENCE[i] # newMode THEN s
  ELSE IF newMode = "active" /\ (Len(s.targets) = 0 \/ s.targetIndex = -1) THEN s
  ELSE IF s.mode = newMode THEN setMessageIf(s, msg)
  ELSE
    LET previousMode == s.mode
        s1 == [s EXCEPT !.mode = newMode]
        started == startMic(s1, micOk)
        s2 == IF s1.mode = "off"
                THEN [stopMic(clearTranscriptAutoOffTimer(
                        clearDetectAutoOffTimer(s1))) EXCEPT !.sendCount = 0]
                ELSE scheduleTranscriptAutoOff(started)
        s3 == IF previousMode = "detect" /\ s2.mode # "detect"
                THEN clearDetectAutoOffTimer(s2) ELSE s2
        s5 == IF newMode = "off" \/ newMode = "active"
                THEN updatePartialTranscript(s3, <<>>) ELSE s3
    IN IF s1.mode # "off" /\ started.closing
         THEN started
         ELSE setMessageIf(s5, msg)


\* an applyMode that leaves the DETECT timeout armed when DETECT is left for
\* ACTIVE
applyMode_keepsDetectTimeout(s, newMode, msg, micOk) ==
  IF \A i \in 1 .. Len(MODE_SEQUENCE) : MODE_SEQUENCE[i] # newMode THEN s
  ELSE IF newMode = "active" /\ (Len(s.targets) = 0 \/ s.targetIndex = -1) THEN s
  ELSE IF s.mode = newMode THEN setMessageIf(s, msg)
  ELSE
    LET s1 == [s EXCEPT !.mode = newMode]
        started == startMic(s1, micOk)
        s2 == IF s1.mode = "off"
                THEN [stopMic(clearTranscriptAutoOffTimer(
                        clearDetectAutoOffTimer(s1))) EXCEPT !.sendCount = 0]
                ELSE scheduleTranscriptAutoOff(started)
        s4 == IF s2.mode = "detect" THEN scheduleDetectAutoOff(s2) ELSE s2
        s5 == IF newMode = "off" \/ newMode = "active"
                THEN updatePartialTranscript(s4, <<>>) ELSE s4
    IN IF s1.mode # "off" /\ started.closing
         THEN started
         ELSE setMessageIf(s5, msg)


applyMode(s, newMode, msg, micOk) ==
  IF \A i \in 1 .. Len(MODE_SEQUENCE) : MODE_SEQUENCE[i] # newMode THEN s
  ELSE IF newMode = "active" /\ (Len(s.targets) = 0 \/ s.targetIndex = -1) THEN s
  ELSE IF s.mode = newMode THEN setMessageIf(s, msg)
  ELSE
    LET previousMode == s.mode
        s1 == [s EXCEPT !.mode = newMode]
        started == startMic(s1, micOk)
        s2 == IF s1.mode = "off"
                THEN [stopMic(clearTranscriptAutoOffTimer(
                        clearDetectAutoOffTimer(s1))) EXCEPT !.sendCount = 0]
                ELSE scheduleTranscriptAutoOff(started)
        s3 == IF previousMode = "detect" /\ s2.mode # "detect"
                THEN clearDetectAutoOffTimer(s2) ELSE s2
        s4 == IF s3.mode = "detect" THEN scheduleDetectAutoOff(s3) ELSE s3
        s5 == IF newMode = "off" \/ newMode = "active"
                THEN updatePartialTranscript(s4, <<>>) ELSE s4
    IN IF s1.mode # "off" /\ started.closing
         THEN started             \* startMic failed: cleanup(1) left the process
         ELSE setMessageIf(s5, msg)

\* MODE_SEQUENCE.indexOf(mode), 0-based
indexOfMode(m) == (CHOOSE i \in 1 .. Len(MODE_SEQUENCE) : MODE_SEQUENCE[i] = m) - 1

\* an advance that falls back to OFF without giving its reason
handleToggle_silentFallback(s, micOk) ==
  LET currentIndex == indexOfMode(s.mode)
      nextIndex == (currentIndex + 1) % Len(MODE_SEQUENCE)
      next == MODE_SEQUENCE[nextIndex + 1]
      candidate == IF next = "active" /\ (Len(s.targets) = 0 \/ s.targetIndex = -1)
                     THEN "off" ELSE next
      msg == IF next = "active"
               THEN IF candidate = "off" THEN "" ELSE "sendStarted"
             ELSE IF next = "detect" THEN "detectStarted"
             ELSE "sendStopped"
  IN applyMode(s, candidate, msg, micOk)


handleToggle(s, micOk) ==
  LET currentIndex == indexOfMode(s.mode)
      nextIndex == (currentIndex + 1) % Len(MODE_SEQUENCE)
      next == MODE_SEQUENCE[nextIndex + 1]
      candidate == IF next = "active" /\ (Len(s.targets) = 0 \/ s.targetIndex = -1)
                     THEN "off" ELSE next
      msg == IF next = "active"
               THEN IF Len(s.targets) = 0 THEN "noTargetsBackToOff"
                    ELSE IF s.targetIndex = -1 THEN "selectTargetBackToOff"
                    ELSE "sendStarted"
             ELSE IF next = "detect" THEN "detectStarted"
             ELSE "sendStopped"
  IN applyMode(s, candidate, msg, micOk)

\* a move that does not wrap around the ends of the list
moveTarget_unwrapped(s, direction) ==
  IF Len(s.targets) = 0 THEN setMessage(s, "noTargetCandidates")
  ELSE LET next == IF s.targetIndex = -1
                     THEN IF direction > 0 THEN 0 ELSE Len(s.targets) - 1
                     ELSE s.targetIndex + direction
       IN setMessage([s EXCEPT !.targetIndex = next], "selected")

moveTarget(s, direction) ==
  IF Len(s.targets) = 0 THEN setMessage(s, "noTargetCandidates")
  ELSE LET next == IF s.targetIndex = -1
                     THEN IF direction > 0 THEN 0 ELSE Len(s.targets) - 1
                     ELSE (s.targetIndex + direction + Len(s.targets))
                            % Len(s.targets)
       IN setMessage([s EXCEPT !.targetIndex = next], "selected")

\* a gate that looks at the socket alone
forwardsFrame_socketOnly(s) == s.ws = "open"

\* the condition under which handleMicData sends input_audio_buffer.append
forwardsFrame(s) == s.mode # "off" /\ s.ws = "open"

handleMicData(s) ==
  IF forwardsFrame(s) THEN [s EXCEPT !.sendCount = @ + 1] ELSE s

\* a gate that looks at the selection alone
dispatchGate_selectionOnly(s) == s.targetIndex # -1

\* the condition under which handleFinalTranscript calls sendToTarget
dispatchGate(s) == s.mode = "active" /\ s.targetIndex # -1

\* handleFinalTranscript up to its await: the state it leaves, the id it calls
\* sendToTarget with ("" if it does not), and whether it threw
handleFinalTranscript(s, raw) ==
  LET normalized == trim(raw)
      finalized == ensureTrailingPunctuation(normalized)
      s1 == IF s.mode = "active"
              THEN updatePartialTranscript(s, <<>>)
              ELSE updatePartialTranscript(s, finalized)
  IN IF normalized = <<>> THEN [state |-> s, sendTo |-> "", threw |-> FALSE]
     ELSE IF dispatchGate(s)
       THEN IF idAt(s.targets, s.targetIndex) = ""
              THEN [state |-> s1, sendTo |-> "", threw |-> TRUE]
              ELSE [state |-> s1, sendTo |-> idAt(s.targets, s.targetIndex),
                    threw |-> FALSE]
       ELSE [state |-> setMessage(s1, "transcribed"), sendTo |-> "",
             threw |-> FALSE]

\* processTranscriptPayload up to its first suspension
processTranscriptPayload(s, text, stageHint) ==
  LET stage == toLowerCase(stageHint)
      final == handleFinalTranscript(s, text)
  IN IF stage \in FINAL_STAGE_HINTS
       THEN IF final.sendTo # "" THEN final
            ELSE IF final.threw
              THEN [final EXCEPT !.state = setMessage(@, "messageError")]
            ELSE IF text # <<>>
              THEN [final EXCEPT !.state = noteTranscriptActivity(@)]
            ELSE final
     ELSE IF text # <<>>
       THEN [state |-> noteTranscriptActivity(updatePartialTranscript(s, text)),
             sendTo |-> "", threw |-> FALSE]
     ELSE IF stage \in PARTIAL_STAGE_HINTS
       THEN [state |-> updatePartialTranscript(s, <<>>), sendTo |-> "",
             threw |-> FALSE]
     ELSE [state |-> s, sendTo |-> "", threw |-> FALSE]

\* the rest of handleFinalTranscript and processTranscriptPayload once
\* sendToTarget has settled
afterSendToTarget(s, text, ok) ==
  LET s1 == setMessage(s, IF ok THEN "sent" ELSE "sendFailed") IN
  IF text # <<>> THEN noteTranscriptActivity(s1) ELSE s1

\* refreshTargets from the point where fetchSendTargets has returned newTargets;
\* r holds what the call read before it awaited
refreshChanged(prevTargets, newTargets) ==
  \/ Len(newTargets) # Len(prevTargets)
  \/ \E i \in 1 .. Len(newTargets) : newTargets[i] # idAt(prevTargets, i - 1)

applyRefresh(s, r, newTargets, micOk) ==
  LET prevTargets == r.prevTargets
      prevTargetId == r.prevTargetId
      changed == refreshChanged(prevTargets, newTargets)
      index == findIndex(newTargets, prevTargetId)
      s1 == [s EXCEPT !.targets = newTargets]
      s2 == IF prevTargetId # "" THEN [s1 EXCEPT !.targetIndex = index]
            ELSE IF s1.targetIndex >= Len(newTargets)
              THEN [s1 EXCEPT !.targetIndex = -1]
            ELSE s1
      msg1 == IF prevTargetId # "" /\ index = -1 THEN "selectedTargetGone" ELSE ""
      downgrade == s2.targetIndex = -1 /\ s2.mode = "active"
      s3 == IF downgrade THEN applyMode(s2, "detect", "", micOk) ELSE s2
      msg2 == IF downgrade THEN "backToDetect" ELSE msg1
      msg3 == IF r.showMessage /\ msg2 = ""
                THEN IF Len(newTargets) > 0 THEN "targetsUpdated" ELSE "noCandidates"
                ELSE msg2
  IN IF ~changed
       THEN IF r.showMessage THEN setMessage(s, "targetsUnchanged") ELSE s
       ELSE setMessageIf(s3, msg3)

(***************************************************************************)
(* Part I, the events.  Each action is one run of a handler between two    *)
(* suspension points.                                                      *)
(***************************************************************************)
min(a, b) == IF a <= b THEN a ELSE b

RemoveAt(seq, i) == SubSeq(seq, 1, i - 1) \o SubSeq(seq, i + 1, Len(seq))

\* the state at main()'s first suspension: the UI is up and the first
\* refreshTargets(true) awaits its fetch
InitMode ==
  /\ mode = "off"
  /\ targets = <<>>
  /\ targetIndex = -1
  /\ partialText = <<>>
  /\ closing = FALSE
  /\ sendCount = 0
  /\ detectModeExpiresAt = NULL
  /\ transcriptTimeoutExpiresAt = NULL
  /\ ws = "none"
  /\ mic = FALSE
  /\ detectAutoOffTimer = "null"
  /\ transcriptAutoOffTimer = "null"
  /\ statusCountdownInterval = FALSE
  /\ targetInterval = FALSE
  /\ message = "info"                   \* 'fetching the targets...'
  /\ mainPc = "refreshTargets"
  /\ refreshesInFlight = SetToBag({ [ prevTargets |-> <<>>,
                                       prevTargetId |-> "",
                                       showMessage |-> TRUE, main |-> TRUE ] })
  /\ sendsInFlight = <<>>

\* [Enter]
Toggle(micOk) ==
  /\ ~closing
  /\ UNCHANGED <<turnVars, playVars, extVars>>
  /\ Becomes(handleToggle(State, micOk))
  /\ UNCHANGED <<mainPc, refreshesInFlight, sendsInFlight>>

\* the arrow keys
MoveTarget(direction) ==
  /\ ~closing
  /\ UNCHANGED <<turnVars, playVars, extVars>>
  /\ Becomes(moveTarget(State, direction))
  /\ UNCHANGED <<mainPc, refreshesInFlight, sendsInFlight>>

\* refreshTargets up to its await of fetchSendTargets
startRefresh(showMessage) ==
  /\ ~closing
  /\ UNCHANGED <<turnVars, playVars, extVars>>
  /\ BagCardinality(refreshesInFlight) < MaxRefreshInFlight
  /\ refreshesInFlight' = refreshesInFlight (+) SetToBag({
       [ prevTargets |-> targets, prevTargetId |-> idAt(targets, targetIndex),
         showMessage |-> showMessage, main |-> FALSE ] })
  /\ UNCHANGED <<mode, targets, targetIndex, partialText, closing, sendCount,
                 detectModeExpiresAt, transcriptTimeoutExpiresAt, ws, mic,
                 detectAutoOffTimer, transcriptAutoOffTimer,
                 statusCountdownInterval, targetInterval, message, mainPc,
                 sendsInFlight>>

\* the r key
RefreshKey == startRefresh(TRUE)

\* the targetInterval timer
RefreshInterval == targetInterval /\ startRefresh(FALSE)

\* fetchSendTargets returns newTargets to r, one of the refreshTargets calls
\* in flight; the call made by main() goes on to connect
RefreshComplete(r, newTargets, micOk) ==
  /\ ~closing
  /\ UNCHANGED <<turnVars, playVars, extVars>>
  /\ BagIn(r, refreshesInFlight)
  /\ LET after == applyRefresh(State, r, newTargets, micOk)
     IN /\ Becomes(IF r.main /\ ~after.closing
                     THEN setMessage(after, "connecting") ELSE after)
        /\ mainPc' = IF r.main /\ ~after.closing THEN "connect" ELSE mainPc
  /\ refreshesInFlight' = refreshesInFlight (-) SetToBag({r})
  /\ UNCHANGED sendsInFlight

\* connectToRealtimeAPI resolves: handlers registered, session.update sent,
\* the refresh interval started
ConnectOk ==
  /\ ~closing
  /\ UNCHANGED <<turnVars, playVars, extVars>>
  /\ mainPc = "connect"
  /\ Becomes(setMessage([State EXCEPT !.ws = "open",
                                      !.targetInterval = TRUE], "nowOff"))
  /\ mainPc' = "running"
  /\ UNCHANGED <<refreshesInFlight, sendsInFlight>>

\* connectToRealtimeAPI rejects
ConnectFail ==
  /\ ~closing
  /\ UNCHANGED <<turnVars, playVars, extVars>>
  /\ mainPc = "connect"
  /\ Becomes(cleanup(setMessage(State, "connectFailed")))
  /\ mainPc' = "done"
  /\ UNCHANGED <<refreshesInFlight, sendsInFlight>>

\* the microphone stream delivers a chunk to its 'data' listener, which is
\* attached from startMic to stopMic
MicData ==
  /\ ~closing
  /\ UNCHANGED <<turnVars, playVars, extVars>>
  /\ mic
  /\ sendCount < MaxSendCount
  /\ Becomes(handleMicData(State))
  /\ UNCHANGED <<mainPc, refreshesInFlight, sendsInFlight>>

\* a transcription event arrives on the socket
Transcript(text, stageHint) ==
  /\ ~closing
  /\ UNCHANGED <<turnVars, playVars, extVars>>
  /\ ws = "open"
  /\ LET p == processTranscriptPayload(State, text, stageHint) IN
     /\ p.sendTo # "" => Len(sendsInFlight) < MaxSendInFlight
     /\ Becomes(p.state)
     /\ sendsInFlight' = IF p.sendTo # ""
                           THEN Append(sendsInFlight, [text |-> text])
                           ELSE sendsInFlight
  /\ UNCHANGED <<mainPc, refreshesInFlight>>

\* sendToTarget settles for the i-th handleFinalTranscript call in flight
SendComplete(i, ok) ==
  /\ ~closing
  /\ UNCHANGED <<turnVars, playVars, extVars>>
  /\ i \in 1 .. Len(sendsInFlight)
  /\ Becomes(afterSendToTarget(State, sendsInFlight[i].text, ok))
  /\ sendsInFlight' = RemoveAt(sendsInFlight, i)
  /\ UNCHANGED <<mainPc, refreshesInFlight>>

\* the callback of detectAutoOffTimer
DetectAutoOffFires ==
  /\ ~closing
  /\ UNCHANGED <<turnVars, playVars, extVars>>
  /\ detectAutoOffTimer = "pending"
  /\ detectModeExpiresAt = 0
  /\ LET s == [State EXCEPT !.detectAutoOffTimer = "fired"] IN
     Becomes(IF s.mode = "detect"
               THEN applyMode(s, "off", "detectTimedOut", TRUE) ELSE s)
  /\ UNCHANGED <<mainPc, refreshesInFlight, sendsInFlight>>

\* the callback of transcriptAutoOffTimer
TranscriptAutoOffFires ==
  /\ ~closing
  /\ UNCHANGED <<turnVars, playVars, extVars>>
  /\ transcriptAutoOffTimer = "pending"
  /\ transcriptTimeoutExpiresAt = 0
  /\ LET s == [State EXCEPT !.transcriptAutoOffTimer = "fired"] IN
     Becomes(IF s.mode # "off"
               THEN applyMode(s, "off", "transcriptTimedOut", TRUE) ELSE s)
  /\ UNCHANGED <<mainPc, refreshesInFlight, sendsInFlight>>

\* one tick of time passes; a timer that is due fires before the next tick
Tick ==
  /\ ~closing
  /\ UNCHANGED <<turnVars, playVars, extVars>>
  /\ ~(detectAutoOffTimer = "pending" /\ detectModeExpiresAt = 0)
  /\ ~(transcriptAutoOffTimer = "pending" /\ transcriptTimeoutExpiresAt = 0)
  /\ detectModeExpiresAt' =
       IF detectModeExpiresAt > 0 THEN detectModeExpiresAt - 1
                                  ELSE detectModeExpiresAt
  /\ transcriptTimeoutExpiresAt' =
       IF transcriptTimeoutExpiresAt > 0 THEN transcriptTimeoutExpiresAt - 1
                                         ELSE transcriptTimeoutExpiresAt
  /\ UNCHANGED <<mode, targets, targetIndex, partialText, closing, sendCount,
                 ws, mic, detectAutoOffTimer, transcriptAutoOffTimer,
                 statusCountdownInterval, targetInterval, message, mainPc,
                 refreshesInFlight, sendsInFlight>>

\* the state that updateStatusLine leaves: it reads mode and the two expiry
\* times and writes the status line of the screen, which is not kept
updateStatusLine(s) == s

\* the callback of statusCountdownInterval
StatusCountdownTick ==
  /\ ~closing
  /\ statusCountdownInterval
  /\ UNCHANGED <<turnVars, playVars, extVars>>
  /\ Becomes(updateStatusLine(State))
  /\ UNCHANGED <<mainPc, refreshesInFlight, sendsInFlight>>

\* q, Ctrl-C, SIGINT or SIGTERM
Quit ==
  /\ ~closing
  /\ UNCHANGED <<turnVars, playVars, extVars>>
  /\ Becomes(cleanup(State))
  /\ UNCHANGED <<mainPc, refreshesInFlight, sendsInFlight>>

\* the socket's 'close' event
WsClose ==
  /\ ~closing
  /\ UNCHANGED <<turnVars, playVars, extVars>>
  /\ ws = "open"
  /\ Becomes(cleanup(setMessage([State EXCEPT !.ws = "closed"],
                                "disconnected")))
  /\ UNCHANGED <<mainPc, refreshesInFlight, sendsInFlight>>

Next ==
  \/ \E micOk \in BOOLEAN : Toggle(micOk)
  \/ \E direction \in {-1, 1} : MoveTarget(direction)
  \/ RefreshKey
  \/ RefreshInterval
  \/ \E r \in BagToSet(refreshesInFlight), newTargets \in TargetLists,
        micOk \in BOOLEAN : RefreshComplete(r, newTargets, micOk)
  \/ ConnectOk
  \/ ConnectFail
  \/ MicData
  \/ \E text \in Transcripts, stageHint \in StageHints :
       Transcript(text, stageHint)
  \/ \E i \in 1 .. MaxSendInFlight, ok \in BOOLEAN : SendComplete(i, ok)
  \/ DetectAutoOffFires
  \/ TranscriptAutoOffFires
  \/ Tick
  \/ StatusCountdownTick
  \/ Quit
  \/ WsClose

(***************************************************************************)
(* Part II, src/voice-agent.js: the utterance queue.  An utterance is      *)
(* named by the order in which enqueueUtterance received it.  Each element *)
(* of loops is one activation of processQueue, suspended in                *)
(*   "backend" : runTurn awaits generateOpenAIOutputs / generateGroqOutputs*)
(*   "tool"    : runTurn awaits routeToolCall                              *)
(*   "fulfilled", "rejected" : runTurn's promise has settled, the await in  *)
(*               processQueue has not resumed yet.                         *)
(***************************************************************************)
createMessage(role, u) == [type |-> role, item |-> u]

\* others.slice(-n) for n >= 0; -0 is 0 in JavaScript, and slice(0) is the
\* whole array
sliceLast(seq, n) ==
  IF n = 0 \/ Len(seq) <= n THEN seq
  ELSE SubSeq(seq, Len(seq) - n + 1, Len(seq))

isSystem(it) == it.type = "system"

isOther(it) == it.type # "system"

pruneConversation(c) ==
  IF Len(c) <= MAX_HISTORY_ITEMS THEN c
  ELSE SelectSeq(c, isSystem) \o sliceLast(SelectSeq(c, isOther), MAX_HISTORY_ITEMS)

addToConversation(c, it) == pruneConversation(Append(c, it))

\* the queue state a handler works on
TurnState ==
  [ pendingUtterances |-> pendingUtterances,
    processingQueue |-> processingQueue,
    loops |-> loops,
    turnLog |-> turnLog,
    conversation |-> conversation ]

TurnBecomes(t) ==
  /\ pendingUtterances' = t.pendingUtterances
  /\ processingQueue' = t.processingQueue
  /\ loops' = t.loops
  /\ turnLog' = t.turnLog
  /\ conversation' = t.conversation

\* runTurn(item) from its call to its first await; the result is where the
\* call is suspended and the conversation it leaves
runTurn(c, u) ==
  LET c1 == addToConversation(c, createMessage("user", u)) IN
  [ frame |-> [ item |-> u,
                pc |-> IF 0 < MAX_TOOL_ITERATIONS THEN "backend" ELSE "fulfilled",
                iteration |-> 0,
                toolCalls |-> 0 ],
    conversation |-> c1 ]

\* processQueue at its while test, for the activation at index i of loops
\* (i = Len(loops) + 1: a new activation)
whileTest(t, i) ==
  IF t.pendingUtterances # <<>>
    THEN LET item == Head(t.pendingUtterances)
             r == runTurn(t.conversation, item)
         IN [t EXCEPT !.pendingUtterances = Tail(t.pendingUtterances),
                      !.turnLog = Append(t.turnLog, item),
                      !.conversation = r.conversation,
                      !.loops = IF i > Len(t.loops)
                                  THEN Append(t.loops, r.frame)
                                  ELSE [t.loops EXCEPT ![i] = r.frame]]
    ELSE [t EXCEPT !.processingQueue = FALSE,
                   !.loops = IF i > Len(t.loops) THEN t.loops
                             ELSE RemoveAt(t.loops, i)]

processQueue(t) ==
  whileTest([t EXCEPT !.processingQueue = TRUE], Len(t.loops) + 1)

\* an enqueueUtterance that starts processQueue on every call
enqueueUtterance_alwaysStarts(t, u) ==
  processQueue([t EXCEPT !.pendingUtterances = Append(t.pendingUtterances, u)])

enqueueUtterance(t, u) ==
  LET t1 == [t EXCEPT !.pendingUtterances = Append(t.pendingUtterances, u)] IN
  IF ~t1.processingQueue THEN processQueue(t1) ELSE t1

\* a processQueue whose loop puts the item of a rejected turn back
afterTurn_requeues(t, i) ==
  whileTest([t EXCEPT !.pendingUtterances =
                        IF t.loops[i].pc = "rejected"
                          THEN Append(t.pendingUtterances, t.loops[i].item)
                          ELSE t.pendingUtterances], i)

\* processQueue resumes after `await runTurn(item).catch(...)`
afterTurn(t, i) == whileTest(t, i)

\* the call_id of the tool call a turn is working on; the backend is taken
\* to give every call an id of its own
callId(f) == <<f.item, f.iteration, f.toolCalls>>

functionCall(id) == [type |-> "function_call", call_id |-> id]

\* ok: the output routeToolCall returned; ~ok: the error output that the
\* catch in runTurn makes of a rejection
functionCallOutput(id, ok) ==
  [type |-> "function_call_output", call_id |-> id,
   output |-> IF ok THEN "result" ELSE "error"]

\* runTurn resumes with the backend's textOutputs (speaks: one of them is
\* spoken) and toolCalls (n of them)
afterBackend(t, i, speaks, n) ==
  LET f == t.loops[i]
      c1 == IF speaks
              THEN addToConversation(t.conversation, createMessage("assistant", f.item))
              ELSE t.conversation
  IN IF n = 0
       THEN [t EXCEPT !.conversation = c1, !.loops[i].pc = "fulfilled"]
       ELSE [t EXCEPT !.conversation =
                        addToConversation(
                          c1, functionCall(callId([f EXCEPT !.toolCalls = n]))),
                      !.loops[i].pc = "tool",
                      !.loops[i].toolCalls = n]

\* a backend rejection that escapes processQueue: the activation ends where
\* it stands
backendFailed_escapes(t, i) == [t EXCEPT !.loops = RemoveAt(t.loops, i)]

\* the backend call rejects: runTurn rejects, processQueue's catch logs it
backendFailed(t, i) == [t EXCEPT !.loops[i].pc = "rejected"]

\* a runTurn without the catch on routeToolCall: the rejection rejects the
\* turn
afterToolCall_abandons(t, i, ok) ==
  LET f == t.loops[i]
      c1 == addToConversation(t.conversation, functionCallOutput(callId(f), ok))
      next == [f EXCEPT !.toolCalls = f.toolCalls - 1]
  IN IF ~ok THEN [t EXCEPT !.loops[i].pc = "rejected"]
     ELSE IF f.toolCalls > 1
       THEN [t EXCEPT !.conversation =
                        addToConversation(c1, functionCall(callId(next))),
                      !.loops[i] = next]
       ELSE [t EXCEPT !.conversation = c1,
                      !.loops[i].toolCalls = 0,
                      !.loops[i].iteration = f.iteration + 1,
                      !.loops[i].pc = IF f.iteration + 1 < MAX_TOOL_ITERATIONS
                                        THEN "backend" ELSE "fulfilled"]

\* a runTurn whose while loop does not test the iteration count
afterToolCall_noLimit(t, i, ok) ==
  LET f == t.loops[i]
      c1 == addToConversation(t.conversation, functionCallOutput(callId(f), ok))
      next == [f EXCEPT !.toolCalls = f.toolCalls - 1]
  IN IF f.toolCalls > 1
       THEN [t EXCEPT !.conversation =
                        addToConversation(c1, functionCall(callId(next))),
                      !.loops[i] = next]
       ELSE [t EXCEPT !.conversation = c1,
                      !.loops[i].toolCalls = 0,
                      !.loops[i].iteration = f.iteration + 1,
                      !.loops[i].pc = "backend"]

\* a runTurn whose catch on routeToolCall appends nothing
afterToolCall_dropsErrorOutput(t, i, ok) ==
  LET f == t.loops[i]
      c1 == IF ok
              THEN addToConversation(t.conversation,
                                     functionCallOutput(callId(f), ok))
              ELSE t.conversation
      next == [f EXCEPT !.toolCalls = f.toolCalls - 1]
  IN IF f.toolCalls > 1
       THEN [t EXCEPT !.conversation =
                        addToConversation(c1, functionCall(callId(next))),
                      !.loops[i] = next]
       ELSE [t EXCEPT !.conversation = c1,
                      !.loops[i].toolCalls = 0,
                      !.loops[i].iteration = f.iteration + 1,
                      !.loops[i].pc = IF f.iteration + 1 < MAX_TOOL_ITERATIONS
                                        THEN "backend" ELSE "fulfilled"]

\* runTurn resumes with routeToolCall's output (ok), or with the output its
\* catch makes of a rejection (~ok); then the next call of the response, the
\* next iteration or the end of the turn
afterToolCall(t, i, ok) ==
  LET f == t.loops[i]
      c1 == addToConversation(t.conversation, functionCallOutput(callId(f), ok))
      next == [f EXCEPT !.toolCalls = f.toolCalls - 1]
  IN IF f.toolCalls > 1
       THEN [t EXCEPT !.conversation =
                        addToConversation(c1, functionCall(callId(next))),
                      !.loops[i] = next]
       ELSE [t EXCEPT !.conversation = c1,
                      !.loops[i].toolCalls = 0,
                      !.loops[i].iteration = f.iteration + 1,
                      !.loops[i].pc = IF f.iteration + 1 < MAX_TOOL_ITERATIONS
                                        THEN "backend" ELSE "fulfilled"]

(***************************************************************************)
(* Part II, the events.                                                    *)
(***************************************************************************)
InitQueue ==
  /\ pendingUtterances = <<>>
  /\ processingQueue = FALSE
  /\ loops = <<>>
  /\ nextUtterance = 1
  /\ nextTranscript = 1
  /\ notesInFlight = {}
  /\ arrivalOf = <<>>
  /\ turnLog = <<>>
  /\ conversation = <<createMessage("system", 0)>>
  /\ added = <<>>

\* the voice agent started without VOICE_AGENT_HISTORY_LIMIT
InitTurn == InitQueue /\ MAX_HISTORY_ITEMS = DEFAULT_HISTORY_LIMIT

\* the voice agent started with a small VOICE_AGENT_HISTORY_LIMIT
InitTurnLimited == InitQueue /\ MAX_HISTORY_ITEMS \in 0 .. MaxHistoryLimit

\* realtimeSocket's message handler receives a final transcript with text:
\* handleFinalTranscript runs up to `await logMeetingNote`.  Transcripts are
\* numbered in the order of their arrival.
FinalTranscript ==
  /\ nextTranscript <= MaxUtterances
  /\ notesInFlight' = notesInFlight \cup {nextTranscript}
  /\ nextTranscript' = nextTranscript + 1
  /\ UNCHANGED <<pendingUtterances, processingQueue, loops, turnLog,
                 conversation, nextUtterance, arrivalOf, pruneVars,
                 modeVars, playVars, extVars>>

\* the appendFile of one waiting handleFinalTranscript settles (a failure is
\* caught inside logMeetingNote) and the handler reaches enqueueUtterance;
\* arrivalOf[u] is the arrival number of the u-th enqueued utterance
Enqueue ==
  /\ nextUtterance <= MaxUtterances
  /\ \E r \in notesInFlight :
       /\ notesInFlight' = notesInFlight \ {r}
       /\ arrivalOf' = Append(arrivalOf, r)
  /\ TurnBecomes(enqueueUtterance(TurnState, nextUtterance))
  /\ nextUtterance' = nextUtterance + 1
  /\ UNCHANGED <<nextTranscript, pruneVars, modeVars, playVars, extVars>>

BackendReturns(i, speaks, n) ==
  /\ i \in 1 .. Len(loops)
  /\ loops[i].pc = "backend"
  /\ TurnBecomes(afterBackend(TurnState, i, speaks, n))
  /\ UNCHANGED <<inputVars, pruneVars, modeVars, playVars, extVars>>

BackendFails(i) ==
  /\ i \in 1 .. Len(loops)
  /\ loops[i].pc = "backend"
  /\ TurnBecomes(backendFailed(TurnState, i))
  /\ UNCHANGED <<inputVars, pruneVars, modeVars, playVars, extVars>>

\* routeToolCall settles: it returns (ok) or rejects (~ok)
ToolCallSettles(i, ok) ==
  /\ i \in 1 .. Len(loops)
  /\ loops[i].pc = "tool"
  /\ TurnBecomes(afterToolCall(TurnState, i, ok))
  /\ UNCHANGED <<inputVars, pruneVars, modeVars, playVars, extVars>>

LoopResumes(i) ==
  /\ i \in 1 .. Len(loops)
  /\ loops[i].pc \in {"fulfilled", "rejected"}
  /\ TurnBecomes(afterTurn(TurnState, i))
  /\ UNCHANGED <<inputVars, pruneVars, modeVars, playVars, extVars>>

NextTurn ==
  \/ FinalTranscript
  \/ Enqueue
  \/ \E i \in 1 .. MaxLoops, speaks \in BOOLEAN, n \in 0 .. MaxToolCalls :
       BackendReturns(i, speaks, n)
  \/ \E i \in 1 .. MaxLoops : BackendFails(i)
  \/ \E i \in 1 .. MaxLoops, ok \in BOOLEAN : ToolCallSettles(i, ok)
  \/ \E i \in 1 .. MaxLoops : LoopResumes(i)

(***************************************************************************)
(* Part III, the playback queue (playback-queue: src/unnamed/part_003) and *)
(* TtsClient.synthesize (src/tts-client.js).                               *)
(*                                                                         *)
(* An utterance is the number the queue accepted it under; the text it     *)
(* carries is known by the number of segments splitIntoSegments makes of   *)
(* it (0: a text that is empty once trimmed).  An activation of process()  *)
(* that is suspended is a record of synths:                                *)
(*   item, segments : the utterance synthesize works on and the number of  *)
(*               its segments                                              *)
(*   segment   : the index of the segment synthesize is at                 *)
(*   outputs   : synthesize's `outputs` array                              *)
(*   pc        : "create"      synthesize awaits audio.speech.create       *)
(*               "arrayBuffer" synthesize awaits response.arrayBuffer()    *)
(*               "fulfilled", "rejected" : synthesize's promise has        *)
(*               settled, the await in process() has not resumed yet.      *)
(***************************************************************************)
PlayState ==
  [ queue |-> queue,
    processing |-> processing,
    stopped |-> stopped,
    synths |-> synths,
    requested |-> requested,
    played |-> played ]

PlayBecomes(p) ==
  /\ queue' = p.queue
  /\ processing' = p.processing
  /\ stopped' = p.stopped
  /\ synths' = p.synths
  /\ requested' = p.requested
  /\ played' = p.played

\* audioPlayer.enqueue(samples, sampleRate) with the samples of one segment:
\* the browser audio output broadcasts them
audioPlayerEnqueue(p, u, j) == [p EXCEPT !.played = Append(p.played, <<u, j>>)]

\* this.client.audio.speech.create({input: segment}) is called
speechCreate(p, u, j) == [p EXCEPT !.requested = Append(p.requested, <<u, j>>)]

\* synthesize(item.text, {onSegment}) from its call to its first await, for
\* the activation at index i of synths (i = Len(synths) + 1: a new one)
synthesize(p, i, item) ==
  LET f == [ item |-> item.utterance,
             segments |-> item.segments,
             segment |-> 1,
             outputs |-> <<>>,
             pc |-> IF item.segments = 0 THEN "fulfilled" ELSE "create" ]
      p1 == IF item.segments = 0 THEN p ELSE speechCreate(p, item.utterance, 1)
  IN [p1 EXCEPT !.synths = IF i > Len(p.synths) THEN Append(p.synths, f)
                           ELSE [p.synths EXCEPT ![i] = f]]

\* process() at its while test
playWhileTest(p, i) ==
  IF p.queue # <<>> /\ ~p.stopped
    THEN synthesize([p EXCEPT !.queue = Tail(p.queue)], i, Head(p.queue))
    ELSE [p EXCEPT !.processing = FALSE,
                   !.synths = IF i > Len(p.synths) THEN p.synths
                              ELSE RemoveAt(p.synths, i)]

process(p) ==
  IF p.processing THEN p
  ELSE playWhileTest([p EXCEPT !.processing = TRUE], Len(p.synths) + 1)

\* PlaybackQueue.enqueue({text}); item.segments = 0 stands for a text that
\* is empty once trimmed
enqueue(p, item) ==
  IF ~enabled \/ p.stopped THEN p
  ELSE IF item.segments = 0 THEN p
  ELSE LET p1 == [p EXCEPT !.queue = Append(p.queue, item)] IN
       IF ~p1.processing THEN process(p1) ELSE p1

\* synthesize resumes with the response of speech.create
afterSpeechCreate(p, i) == [p EXCEPT !.synths[i].pc = "arrayBuffer"]

\* a synthesize that collects a segment in outputs as well as handing it to
\* onSegment
afterArrayBuffer_alsoCollects(p, i) ==
  LET f == p.synths[i]
      p1 == audioPlayerEnqueue(p, f.item, f.segment)
      p2 == [p1 EXCEPT !.synths[i].outputs = Append(f.outputs, f.segment)]
  IN IF f.segment < f.segments
       THEN [speechCreate(p2, f.item, f.segment + 1)
               EXCEPT !.synths[i].segment = f.segment + 1,
                      !.synths[i].pc = "create"]
       ELSE [p2 EXCEPT !.synths[i].pc = "fulfilled"]

\* synthesize resumes with the samples of its segment: onSegment is a
\* function (process() always passes one), so the payload goes to onSegment,
\* which hands it to audioPlayer.enqueue, and outputs stays empty; then the
\* request for the next segment, or the return of outputs
afterArrayBuffer(p, i) ==
  LET f == p.synths[i]
      p1 == audioPlayerEnqueue(p, f.item, f.segment)
  IN IF f.segment < f.segments
       THEN [speechCreate(p1, f.item, f.segment + 1)
               EXCEPT !.synths[i].segment = f.segment + 1,
                      !.synths[i].pc = "create"]
       ELSE [p1 EXCEPT !.synths[i].pc = "fulfilled"]

\* a failure that escapes process(): the activation ends where it stands
synthesisFailed_escapes(p, i) == [p EXCEPT !.synths = RemoveAt(p.synths, i)]

\* one of the two awaits of a segment rejects: the catch in synthesize
\* throws, synthesize rejects
synthesisFailed(p, i) == [p EXCEPT !.synths[i].pc = "rejected"]

RECURSIVE forwardOutputs(_, _, _)
\* process() hands the segments synthesize returned to audioPlayer.enqueue
forwardOutputs(p, u, outputs) ==
  IF outputs = <<>> THEN p
  ELSE forwardOutputs(audioPlayerEnqueue(p, u, Head(outputs)), u, Tail(outputs))

\* process() resumes after `await this.ttsClient.synthesize(...)`: with the
\* returned segments, or in its catch, which logs the error
afterSynthesize(p, i) ==
  LET f == p.synths[i] IN
  IF f.pc = "fulfilled"
    THEN playWhileTest(forwardOutputs(p, f.item, f.outputs), i)
    ELSE playWhileTest(p, i)

\* PlaybackQueue.shutdown(); audioPlayer.shutdown() does nothing
shutdown(p) == [p EXCEPT !.stopped = TRUE, !.queue = <<>>]

(***************************************************************************)
(* Part III, the events.                                                   *)
(***************************************************************************)
InitPlayback ==
  /\ queue = <<>>
  /\ processing = FALSE
  /\ stopped = FALSE
  /\ synths = <<>>
  /\ nextItem = 1
  /\ requested = <<>>
  /\ played = <<>>

\* the voice agent started with --no-tts: there is no playback queue
InitNoTts == InitPlayback /\ enabled = FALSE

\* a PlaybackQueue as the voice agent constructs it, or one constructed with
\* enabled: false
InitTts == InitPlayback /\ enabled \in BOOLEAN

\* enqueue({text}) with a text of n segments; the utterances the queue
\* accepts are numbered in the order of their acceptance
PlaybackEnqueue(n) ==
  /\ nextItem <= MaxPlayback
  /\ LET item == [utterance |-> nextItem, segments |-> n]
         p == enqueue(PlayState, item)
     IN /\ PlayBecomes(p)
        /\ nextItem' = IF enabled /\ ~stopped /\ n # 0
                         THEN nextItem + 1 ELSE nextItem
  /\ UNCHANGED <<enabled, modeVars, turnVars, extVars>>

SpeechCreated(i) ==
  /\ i \in 1 .. Len(synths)
  /\ synths[i].pc = "create"
  /\ PlayBecomes(afterSpeechCreate(PlayState, i))
  /\ UNCHANGED <<enabled, nextItem, modeVars, turnVars, extVars>>

SegmentArrives(i) ==
  /\ i \in 1 .. Len(synths)
  /\ synths[i].pc = "arrayBuffer"
  /\ PlayBecomes(afterArrayBuffer(PlayState, i))
  /\ UNCHANGED <<enabled, nextItem, modeVars, turnVars, extVars>>

\* speech.create or response.arrayBuffer() rejects
SynthesisFails(i) ==
  /\ i \in 1 .. Len(synths)
  /\ synths[i].pc \in {"create", "arrayBuffer"}
  /\ PlayBecomes(synthesisFailed(PlayState, i))
  /\ UNCHANGED <<enabled, nextItem, modeVars, turnVars, extVars>>

ProcessResumes(i) ==
  /\ i \in 1 .. Len(synths)
  /\ synths[i].pc \in {"fulfilled", "rejected"}
  /\ PlayBecomes(afterSynthesize(PlayState, i))
  /\ UNCHANGED <<enabled, nextItem, modeVars, turnVars, extVars>>

Shutdown ==
  /\ PlayBecomes(shutdown(PlayState))
  /\ UNCHANGED <<enabled, nextItem, modeVars, turnVars, extVars>>

NextPlayback ==
  \/ \E n \in 0 .. MaxSegments : PlaybackEnqueue(n)
  \/ \E i \in 1 .. MaxSynths : SpeechCreated(i)
  \/ \E i \in 1 .. MaxSynths : SegmentArrives(i)
  \/ \E i \in 1 .. MaxSynths : SynthesisFails(i)
  \/ \E i \in 1 .. MaxSynths : ProcessResumes(i)
  \/ Shutdown

(***************************************************************************)
(* Part IV, the shutdown of the voice agent (src/voice-agent.js):          *)
(* initiateShutdown and its finalize, the signal handlers and              *)
(* startRealtime.                                                          *)
(*                                                                         *)
(* finalizePc is where finalize() is suspended:                            *)
(*   "idle"     : finalize has not been called                             *)
(*   "playback" : it awaits playbackQueue.shutdown()                       *)
(*   "browser"  : it awaits the callback of browserWsServer.close          *)
(*   "http"     : it awaits the callback of httpServer.close               *)
(*   "exited"   : process.exit(code) has been called.                      *)
(* attempted holds the cleanup steps finalize has started; requests is the *)
(* log of the shutdown requests, kept for the statement of the claims.     *)
(***************************************************************************)
ShutState ==
  [ shuttingDown |-> shuttingDown,
    realtimeSocket |-> realtimeSocket,
    readyState |-> readyState,
    browserWsServer |-> browserWsServer,
    finalizePc |-> finalizePc,
    code |-> code,
    attempted |-> attempted,
    exitCode |-> exitCode,
    cleanupRuns |-> cleanupRuns ]

\* process.exit(code) in the finally of finalize
processExit(s) == [s EXCEPT !.finalizePc = "exited", !.exitCode = s.code]

\* finalize at `if (httpServer)`: httpServer is always there
closeHttpServer(s) ==
  [s EXCEPT !.attempted = s.attempted \cup {"http"}, !.finalizePc = "http"]

\* finalize at `if (browserWsServer)`
closeBrowserWsServer(s) ==
  IF s.browserWsServer
    THEN [s EXCEPT !.attempted = s.attempted \cup {"browser"},
                   !.finalizePc = "browser"]
    ELSE closeHttpServer(s)

\* finalize at `if (playbackQueue)`; the voice agent has a playback queue
\* unless TTS is disabled
shutdownPlaybackQueue(s) ==
  IF enabled
    THEN [s EXCEPT !.attempted = s.attempted \cup {"playback"},
                   !.finalizePc = "playback"]
    ELSE closeBrowserWsServer(s)

\* finalize() from its call to its first await; closeThrows: whether
\* realtimeSocket.close() throws
finalize(s, closeThrows) ==
  LET s1 == IF s.realtimeSocket # "null" /\ s.readyState = "OPEN"
              THEN IF closeThrows
                     THEN [s EXCEPT !.attempted = s.attempted \cup {"socket"}]
                     ELSE [s EXCEPT !.attempted = s.attempted \cup {"socket"},
                                    !.readyState = "CLOSING",
                                    !.realtimeSocket = "null"]
              ELSE [s EXCEPT !.realtimeSocket = "null"]
  IN shutdownPlaybackQueue(s1)

\* an initiateShutdown without its test of shuttingDown
initiateShutdown_unguarded(s, c, closeThrows) ==
  finalize([s EXCEPT !.shuttingDown = TRUE,
                     !.code = c,
                     !.cleanupRuns = s.cleanupRuns + 1], closeThrows)

initiateShutdown(s, c, closeThrows) ==
  IF s.shuttingDown THEN s
  ELSE finalize([s EXCEPT !.shuttingDown = TRUE,
                          !.code = c,
                          !.cleanupRuns = s.cleanupRuns + 1], closeThrows)

\* finalize resumes after the await of a cleanup step: the step is done
\* (ok), or it has thrown or rejected (~ok) and control is in the catch that
\* the three steps share, then in the finally
afterCleanupStep(s, ok) ==
  IF ~ok THEN processExit(s)
  ELSE CASE s.finalizePc = "playback" -> closeBrowserWsServer(s)
         [] s.finalizePc = "browser" ->
              closeHttpServer([s EXCEPT !.browserWsServer = FALSE])
         [] OTHER -> processExit(s)

\* the 'close' handler that startRealtime puts on the socket
onSocketClose(s) ==
  LET s1 == [s EXCEPT !.readyState = "CLOSED"] IN
  IF ~s1.shuttingDown THEN initiateShutdown(s1, 0, FALSE) ELSE s1

(***************************************************************************)
(* Part IV, the events.                                                    *)
(***************************************************************************)
\* the voice agent after its top-level code has run: startRealtime awaits
\* connectToRealtimeAPI; the browser socket server exists unless its
\* construction threw
InitShutdown ==
  /\ shuttingDown = FALSE
  /\ realtimeSocket = "null"
  /\ readyState = "CONNECTING"
  /\ finalizePc = "idle"
  /\ code = NULL
  /\ attempted = {}
  /\ exitCode = NULL
  /\ cleanupRuns = 0
  /\ requests = <<>>

InitServers == InitShutdown /\ browserWsServer \in BOOLEAN

\* the parts that do not look at the shutdown
InitNoShutdown == InitShutdown /\ browserWsServer = TRUE

\* s is what a handler leaves; the first step of a finalize that has a
\* playback queue runs PlaybackQueue.shutdown() up to its await
ShutBecomes(s) ==
  /\ shuttingDown' = s.shuttingDown
  /\ realtimeSocket' = s.realtimeSocket
  /\ readyState' = s.readyState
  /\ browserWsServer' = s.browserWsServer
  /\ finalizePc' = s.finalizePc
  /\ code' = s.code
  /\ attempted' = s.attempted
  /\ exitCode' = s.exitCode
  /\ cleanupRuns' = s.cleanupRuns
  /\ IF enabled /\ s.cleanupRuns # cleanupRuns
       THEN PlayBecomes(shutdown(PlayState))
       ELSE UNCHANGED <<queue, processing, stopped, synths, requested, played>>
  /\ UNCHANGED <<enabled, nextItem, modeVars, turnVars, audioVars, segmenterVars,
                 payloadVars, agentVars, otherVars>>

running == exitCode = NULL

\* SIGINT or SIGTERM
Signal(closeThrows) ==
  /\ running
  /\ Cardinality({ k \in 1 .. Len(requests) : requests[k].kind = "signal" })
       < MaxSignals
  /\ requests' = Append(requests, [kind |-> "signal", code |-> 0])
  /\ ShutBecomes(initiateShutdown(ShutState, 0, closeThrows))

\* connectToRealtimeAPI resolves and startRealtime goes on; configured:
\* whether the rest of startRealtime runs without throwing (a throw rejects
\* startRealtime, whose catch calls initiateShutdown(1, null))
RealtimeConnects(configured, closeThrows) ==
  /\ running
  /\ readyState = "CONNECTING"
  /\ LET s1 == [ShutState EXCEPT !.realtimeSocket = "socket", !.readyState = "OPEN"]
     IN IF configured
          THEN /\ ShutBecomes(s1)
               /\ requests' = requests
          ELSE /\ ShutBecomes(initiateShutdown(s1, 1, closeThrows))
               /\ requests' = Append(requests, [kind |-> "startup", code |-> 1])

\* connectToRealtimeAPI rejects
RealtimeConnectFails ==
  /\ running
  /\ readyState = "CONNECTING"
  /\ requests' = Append(requests, [kind |-> "connect", code |-> 1])
  /\ ShutBecomes(initiateShutdown([ShutState EXCEPT !.readyState = "CLOSED"],
                                  1, FALSE))

\* the socket's 'close' event: the peer has closed an open socket, or the
\* close that finalize asked for is complete
SocketClose ==
  /\ running
  /\ readyState \in {"OPEN", "CLOSING"}
  /\ requests' = Append(requests, [kind |-> "close", code |-> 0])
  /\ ShutBecomes(onSocketClose(ShutState))

\* the cleanup step finalize awaits settles
CleanupStepSettles(ok) ==
  /\ running
  /\ finalizePc \in {"playback", "browser", "http"}
  /\ requests' = requests
  /\ ShutBecomes(afterCleanupStep(ShutState, ok))

NextShutdown ==
  \/ \E closeThrows \in BOOLEAN : Signal(closeThrows)
  \/ \E configured, closeThrows \in BOOLEAN : RealtimeConnects(configured, closeThrows)
  \/ RealtimeConnectFails
  \/ SocketClose
  \/ \E ok \in BOOLEAN : CleanupStepSettles(ok)

(***************************************************************************)
(* Part V, the playback engine (AudioPlayer, src/unnamed/part_000).        *)
(*                                                                         *)
(* A buffer is known by its length in samples.  timer and prefillTimer     *)
(* tell whether the flush interval and the prefill timeout are armed,      *)
(* idleTimestamp whether a time is noted in it.  thrown tells whether the  *)
(* last operation let an error of the output device out to its caller,    *)
(* pushed the blocks it handed to pushSamplesForPlay, notified the last    *)
(* state given to onStateChange, and idleFor the milliseconds gone by      *)
(* since the time in idleTimestamp was noted.  A block is known by the     *)
(* slices copied into it (the length of the buffer a slice is taken from,  *)
(* where the slice begins, and how many samples it has) and by the number  *)
(* of zeros after them.                                                    *)
(***************************************************************************)
AudioState ==
  [ buffers |-> buffers,
    bufferOffset |-> bufferOffset,
    timer |-> timer,
    idleTimestamp |-> idleTimestamp,
    started |-> playerStarted,
    stopped |-> playerStopped,
    prefillTimer |-> prefillTimer,
    portAudioInitialized |-> portAudioInitialized,
    thrown |-> thrown,
    chunk |-> <<>>,
    pushed |-> pushed,
    notified |-> notified ]

\* the length of resampleLinear(int16, fromRate, PLAYBACK_SAMPLE_RATE) for
\* an int16 of length len
resampledLength(len, fromRate) ==
  LET from == IF fromRate <= 0 THEN PLAYBACK_SAMPLE_RATE ELSE fromRate IN
  IF from = PLAYBACK_SAMPLE_RATE THEN len
  ELSE LET newLength == (len * PLAYBACK_SAMPLE_RATE) \div from
       IN IF newLength < 1 THEN 1 ELSE newLength

RECURSIVE sumOf(_)
sumOf(lengths) == IF lengths = <<>> THEN 0 ELSE Head(lengths) + sumOf(Tail(lengths))

getBufferedSampleCount(a) ==
  IF a.buffers = <<>> THEN 0
  ELSE LET total == sumOf(a.buffers) - a.bufferOffset
       IN IF total > 0 THEN total ELSE 0

clearPrefillTimer(a) == [a EXCEPT !.prefillTimer = FALSE]

\* notifyState; an error of onStateChange is caught and logged
notifyState(a, state) == [a EXCEPT !.notified = state]

\* start: "ok", or where the device fails: "init" (loadPortAudio or
\* initSampleBuffers throws), "speaker" (startSpeaker throws)
ensureStarted(a, start) ==
  IF a.started THEN a
  ELSE IF start = "init" /\ ~a.portAudioInitialized
    THEN [a EXCEPT !.thrown = TRUE]
  ELSE IF start = "speaker"
    THEN [a EXCEPT !.portAudioInitialized = TRUE, !.thrown = TRUE]
  ELSE notifyState(
         clearPrefillTimer([a EXCEPT !.portAudioInitialized = TRUE,
                                     !.timer = TRUE,
                                     !.started = TRUE,
                                     !.stopped = FALSE]),
         "start")

schedulePrefillStart(a) ==
  IF a.prefillTimer \/ getBufferedSampleCount(a) = 0 THEN a
  ELSE [a EXCEPT !.prefillTimer = TRUE]

\* an enqueue without its test of `stopped`
audioEnqueue_afterShutdown(a, len, rate, start) ==
  LET n == resampledLength(len, rate)
      a1 == [a EXCEPT !.buffers = Append(a.buffers, n), !.idleTimestamp = "null"]
  IN IF n = 0 THEN a
     ELSE IF a1.started THEN a1
     ELSE IF prefillSamples = 0 \/ getBufferedSampleCount(a1) >= prefillSamples
       THEN ensureStarted(a1, start)
       ELSE schedulePrefillStart(a1)

\* AudioPlayer.enqueue(samples, sampleRate) for an Int16Array of length len
audioEnqueue(a, len, rate, start) ==
  IF a.stopped THEN a
  ELSE LET n == resampledLength(len, rate)
           a1 == [a EXCEPT !.buffers = Append(a.buffers, n),
                           !.idleTimestamp = "null"]
       IN IF n = 0 THEN a
          ELSE IF a1.started THEN a1
          ELSE IF prefillSamples = 0 \/ getBufferedSampleCount(a1) >= prefillSamples
            THEN ensureStarted(a1, start)
            ELSE schedulePrefillStart(a1)

\* the callback of the prefill timeout
prefillStart(a, start) ==
  LET a1 == [a EXCEPT !.prefillTimer = FALSE] IN
  IF ~a1.started /\ ~a1.stopped /\ getBufferedSampleCount(a1) > 0
    THEN ensureStarted(a1, start)
    ELSE a1

\* a pause that tells nobody
pause_silent(a) ==
  IF ~a.started \/ a.stopped THEN a
  ELSE clearPrefillTimer([a EXCEPT !.started = FALSE,
                                   !.idleTimestamp = "null",
                                   !.timer = FALSE])

\* pause(); an error of stopSpeaker is caught and dropped
pause(a) ==
  IF ~a.started \/ a.stopped THEN a
  ELSE notifyState(
         clearPrefillTimer([a EXCEPT !.started = FALSE,
                                     !.idleTimestamp = "null",
                                     !.timer = FALSE]),
         "stop")

RECURSIVE fillChunk(_, _)
\* a fill loop that leaves a buffer it has used up at the head of the queue
fillChunk_keepsHead(a, filled) ==
  IF filled < BLOCK_SIZE /\ a.buffers # <<>>
    THEN LET current == Head(a.buffers)
             remaining == current - a.bufferOffset
             toCopy == min(remaining, BLOCK_SIZE - filled)
         IN IF toCopy <= 0 THEN [state |-> a, filled |-> filled]
            ELSE fillChunk([a EXCEPT !.bufferOffset = a.bufferOffset + toCopy,
                                     !.chunk = Append(@, [length |-> current,
                                                          from |-> a.bufferOffset,
                                                          count |-> toCopy])],
                           filled + toCopy)
    ELSE [state |-> a, filled |-> filled]

\* the while loop of flush: the samples copied into the chunk leave the
\* queue
fillChunk(a, filled) ==
  IF filled < BLOCK_SIZE /\ a.buffers # <<>>
    THEN LET current == Head(a.buffers)
             remaining == current - a.bufferOffset
             toCopy == min(remaining, BLOCK_SIZE - filled)
             offset == a.bufferOffset + toCopy
             a1 == [a EXCEPT !.chunk = Append(@, [length |-> current,
                                                  from |-> a.bufferOffset,
                                                  count |-> toCopy])]
         IN fillChunk(IF offset >= current
                        THEN [a1 EXCEPT !.buffers = Tail(a.buffers),
                                        !.bufferOffset = 0]
                        ELSE [a1 EXCEPT !.bufferOffset = offset],
                      filled + toCopy)
    ELSE [state |-> a, filled |-> filled]

\* the chunk is handed to pushSamplesForPlay, the samples copied into it
\* followed by zeros
pushSamplesForPlay(a, filled, pushOk) ==
  [a EXCEPT !.pushed = Append(@, [slices |-> a.chunk, zeros |-> BLOCK_SIZE - filled]),
            !.chunk = <<>>,
            !.thrown = ~pushOk]

\* a flush that pauses at the first tick that finds the queue empty
flush_pausesAtOnce(a, expired, pushOk) ==
  IF a.buffers = <<>>
    THEN IF a.started THEN pause(a) ELSE a
    ELSE LET r == fillChunk(a, 0)
         IN IF r.filled = 0 THEN [r.state EXCEPT !.chunk = <<>>]
            ELSE pushSamplesForPlay(r.state, r.filled, pushOk)

\* flush(), the callback of the interval; expired: whether more than
\* IDLE_TIMEOUT_MS have passed since idleTimestamp; pushOk: whether
\* pushSamplesForPlay returns
flush(a, expired, pushOk) ==
  IF a.buffers = <<>>
    THEN IF a.started
           THEN IF a.idleTimestamp = "null"
                  THEN [a EXCEPT !.idleTimestamp = "set"]
                  ELSE IF expired THEN pause(a) ELSE a
           ELSE a
    ELSE LET r == fillChunk(a, 0)
         IN IF r.filled = 0 THEN [r.state EXCEPT !.chunk = <<>>]
            ELSE pushSamplesForPlay(r.state, r.filled, pushOk)

\* AudioPlayer.shutdown(); an error of stopSpeaker is caught and dropped
audioShutdown(a) ==
  notifyState(
    clearPrefillTimer([a EXCEPT !.stopped = TRUE,
                                !.buffers = <<>>,
                                !.bufferOffset = 0,
                                !.timer = FALSE,
                                !.started = FALSE]),
    "stop")

(***************************************************************************)
(* Part V, the events.                                                     *)
(***************************************************************************)
InitAudio ==
  /\ buffers = <<>>
  /\ bufferOffset = 0
  /\ timer = FALSE
  /\ idleTimestamp = "null"
  /\ playerStarted = FALSE
  /\ playerStopped = FALSE
  /\ prefillTimer = FALSE
  /\ portAudioInitialized = FALSE
  /\ thrown = FALSE
  /\ calls = <<>>
  /\ pushed = <<>>
  /\ notified = "none"
  /\ idleFor = 0

\* the voice agent plays through the browser: no AudioPlayer is used
InitNoPlayer == InitAudio /\ prefillSamples = PREFILL_SAMPLES

\* an AudioPlayer with the default prefill, or with VOICE_AGENT_AUDIO_PREFILL_MS=0
InitPlayer == InitAudio /\ prefillSamples \in {0, PREFILL_SAMPLES}

\* a is what an operation leaves; thrown tells of that operation alone
AudioBecomes(a) ==
  /\ buffers' = a.buffers
  /\ bufferOffset' = a.bufferOffset
  /\ timer' = a.timer
  /\ idleTimestamp' = a.idleTimestamp
  /\ playerStarted' = a.started
  /\ playerStopped' = a.stopped
  /\ prefillTimer' = a.prefillTimer
  /\ portAudioInitialized' = a.portAudioInitialized
  /\ thrown' = a.thrown
  /\ pushed' = a.pushed
  /\ notified' = a.notified
  /\ UNCHANGED <<prefillSamples, modeVars, turnVars, playVars, shutVars,
                 segmenterVars, payloadVars, agentVars, otherVars>>

called == [AudioState EXCEPT !.thrown = FALSE, !.pushed = <<>>]

callsOf(op) == Cardinality({ k \in 1 .. Len(calls) : calls[k] = op })

StartOutcomes == {"ok", "init", "speaker"}

\* the milliseconds between one run of the flush interval and the one
\* before it
TickDelays == {40, 250}

AudioEnqueue(len, rate, start) ==
  /\ callsOf("enqueue") < MaxBuffers
  /\ calls' = Append(calls, "enqueue")
  /\ AudioBecomes(audioEnqueue(called, len, rate, start))
  /\ idleFor' = IF idleTimestamp' = "null" THEN 0 ELSE idleFor

\* the flush interval runs, delay milliseconds after it last did; Date.now()
\* has gone on by as much
FlushTick(delay, pushOk) ==
  /\ timer
  /\ calls' = calls
  /\ AudioBecomes(flush(called, idleFor + delay > IDLE_TIMEOUT_MS, pushOk))
  /\ idleFor' = IF idleTimestamp' = "null" \/ idleTimestamp = "null"
                  THEN 0 ELSE idleFor + delay

PrefillTimerFires(start) ==
  /\ prefillTimer
  /\ calls' = calls
  /\ AudioBecomes(prefillStart(called, start))
  /\ idleFor' = IF idleTimestamp' = "null" THEN 0 ELSE idleFor

\* pause() is called from outside the player
AudioPause ==
  /\ calls' = calls
  /\ AudioBecomes(pause(called))
  /\ idleFor' = IF idleTimestamp' = "null" THEN 0 ELSE idleFor

AudioShutdown ==
  /\ callsOf("shutdown") < MaxShutdowns
  /\ calls' = Append(calls, "shutdown")
  /\ AudioBecomes(audioShutdown(called))
  /\ idleFor' = IF idleTimestamp' = "null" THEN 0 ELSE idleFor

NextAudio ==
  \/ \E len \in SampleCounts, rate \in SampleRates, start \in StartOutcomes :
       AudioEnqueue(len, rate, start)
  \/ \E delay \in TickDelays, pushOk \in BOOLEAN : FlushTick(delay, pushOk)
  \/ \E start \in StartOutcomes : PrefillTimerFires(start)
  \/ AudioPause
  \/ AudioShutdown

(***************************************************************************)
(* Part VI, the segmenter of the text-to-speech client                     *)
(* (src/tts-client.js): splitIntoSegments and its helpers, on strings as   *)
(* sequences of characters.  MAX_SEGMENT_CHARS and TARGET_SEGMENT_CHARS    *)
(* are read from the environment when the module is loaded.                *)
(***************************************************************************)
CANDIDATE_DELIMITERS ==
  {"maru", "fwperiod", ".", "fwbang", "!", "fwquestion", "?", "ten", ",",
   "fwcomma", ";", "fwsemicolon", ":", "fwcolon", "kome"}
OPEN_BRACKETS ==
  {"lkagi", "lwkagi", "fwlparen", "(", "[", "{", "langle", "ldangle",
   "ldquote", "dquote"}
CLOSE_BRACKETS ==
  {"rkagi", "rwkagi", "fwrparen", ")", "]", "}", "rangle", "rdangle",
   "rdquote", "dquote"}
TOKEN_DELIMITERS ==
  CANDIDATE_DELIMITERS \cup OPEN_BRACKETS \cup CLOSE_BRACKETS \cup {" "}
LEADING_BREAK_DELIMITERS == {"kome"} \cup OPEN_BRACKETS
TRAILING_BREAK_DELIMITERS ==
  {"maru", "fwperiod", ".", "fwbang", "!", "fwquestion", "?"} \cup CLOSE_BRACKETS

\* text.replace(/\s+/g, ' '): every run of whitespace becomes one space
collapseWhitespace(t) ==
  LET kept == SelectSeq([i \in 1 .. Len(t) |-> i],
                        LAMBDA i : \/ t[i] \notin WHITESPACE
                                   \/ i = 1
                                   \/ t[i - 1] \notin WHITESPACE)
  IN [k \in 1 .. Len(kept) |->
        IF t[kept[k]] \in WHITESPACE THEN " " ELSE t[kept[k]]]

\* tokenize: the buffer is pushed after every delimiter and at the end of the
\* text, so a token runs from the character after one delimiter up to and
\* including the next
tokenize(t) ==
  LET ends == SelectSeq([i \in 1 .. Len(t) |-> i],
                        LAMBDA i : t[i] \in TOKEN_DELIMITERS \/ i = Len(t))
  IN [k \in 1 .. Len(ends) |->
        SubSeq(t, (IF k = 1 THEN 0 ELSE ends[k - 1]) + 1, ends[k])]

shouldBreakBefore(token) ==
  /\ token # <<>>
  /\ Len(token) = 1
  /\ token[1] \in LEADING_BREAK_DELIMITERS

shouldBreakAfter(token) ==
  /\ token # <<>>
  /\ token[Len(token)] \in TRAILING_BREAK_DELIMITERS

RECURSIVE fallbackChunkFrom(_, _)
\* the loop of fallbackChunk from cursor on
fallbackChunkFrom(t, cursor) ==
  IF cursor < Len(t)
    THEN LET end == min(cursor + MAX_SEGMENT_CHARS, Len(t))
             chunk == trim(SubSeq(t, cursor + 1, end))
         IN (IF chunk # <<>> THEN <<chunk>> ELSE <<>>) \o fallbackChunkFrom(t, end)
    ELSE <<>>

fallbackChunk(t) ==
  LET chunks == fallbackChunkFrom(t, 0) IN
  IF chunks = <<>> THEN <<trim(t)>> ELSE chunks

RECURSIVE mergeFrom(_, _)
\* a merge that keeps the short segment in place of its predecessor
mergeFrom_dropsPrevious(segs, merged) ==
  IF segs = <<>> THEN merged
  ELSE LET segment == Head(segs) IN
       IF segment = <<>> THEN mergeFrom(Tail(segs), merged)
       ELSE IF Len(segment) <= SHORT_SEGMENT_CHARS /\ merged # <<>>
         THEN mergeFrom(Tail(segs),
                        [merged EXCEPT ![Len(merged)] = trim(segment)])
         ELSE mergeFrom(Tail(segs), Append(merged, segment))

\* the loop of mergeShortSegments
mergeFrom(segs, merged) ==
  IF segs = <<>> THEN merged
  ELSE LET segment == Head(segs) IN
       IF segment = <<>> THEN mergeFrom(Tail(segs), merged)
       ELSE IF Len(segment) <= SHORT_SEGMENT_CHARS /\ merged # <<>>
         THEN mergeFrom(Tail(segs),
                        [merged EXCEPT ![Len(merged)] = trim(@ \o segment)])
         ELSE mergeFrom(Tail(segs), Append(merged, segment))

mergeShortSegments(segs) == mergeFrom(segs, <<>>)

RECURSIVE splitFrom(_, _, _)
\* the for loop of splitIntoSegments and the push after it
splitFrom(tokens, segs, current) ==
  IF tokens = <<>>
    THEN IF trim(current) # <<>> THEN Append(segs, trim(current)) ELSE segs
  ELSE
    LET token == Head(tokens)
        trimmedToken == trim(token)
        broken == shouldBreakBefore(trimmedToken) /\ trim(current) # <<>>
        segs1 == IF broken THEN Append(segs, trim(current)) ELSE segs
        current1 == IF broken THEN <<>> ELSE current
        merged == current1 \o token
    IN IF Len(token) > MAX_SEGMENT_CHARS
         THEN splitFrom(Tail(tokens),
                        (IF trim(current1) # <<>>
                           THEN Append(segs1, trim(current1)) ELSE segs1)
                          \o fallbackChunk(token),
                        <<>>)
       ELSE IF Len(trim(merged)) > MAX_SEGMENT_CHARS
         THEN splitFrom(Tail(tokens),
                        IF trim(current1) # <<>>
                          THEN Append(segs1, trim(current1)) ELSE segs1,
                        token)
       ELSE IF \/ Len(trim(merged)) >= TARGET_SEGMENT_CHARS
               \/ shouldBreakAfter(trimmedToken)
         THEN splitFrom(Tail(tokens), Append(segs1, trim(merged)), <<>>)
       ELSE splitFrom(Tail(tokens), segs1, merged)

RECURSIVE normalizeSegments(_)
\* segments.flatMap: a segment over the maximum is chunked
normalizeSegments(segs) ==
  IF segs = <<>> THEN <<>>
  ELSE (IF Len(Head(segs)) > MAX_SEGMENT_CHARS
          THEN fallbackChunk(Head(segs)) ELSE <<Head(segs)>>)
       \o normalizeSegments(Tail(segs))

splitIntoSegments(text) ==
  IF text = <<>> THEN <<>>
  ELSE LET normalized == trim(collapseWhitespace(text)) IN
       IF normalized = <<>> THEN <<>>
       ELSE mergeShortSegments(
              normalizeSegments(splitFrom(tokenize(normalized), <<>>, <<>>)))

(***************************************************************************)
(* Part VI, the events.                                                    *)
(***************************************************************************)
run(c, n) == [k \in 1 .. n |-> c]

\* what a text is put together from: words of several lengths, a space, a
\* line break, a sentence end, an opening bracket and a comma
Pieces ==
  { run("a", 1), run("a", 4), run("a", 6), run("a", 11), run("a", 36),
    <<" ">>, <<"nl">>, <<".">>, <<"(">>, <<",">> }

\* the limits of the segmenter: the defaults, and the least the code allows
SegmentLimits == { <<70, 30>>, <<10, 5>> }

InitSegmenter ==
  /\ ttsText = <<>>
  /\ pieces = 0
  /\ segments = <<>>
  /\ splitDone = FALSE

InitDefaultLimits ==
  InitSegmenter /\ MAX_SEGMENT_CHARS = 70 /\ TARGET_SEGMENT_CHARS = 30

InitLimits ==
  /\ InitSegmenter
  /\ \E l \in SegmentLimits : MAX_SEGMENT_CHARS = l[1] /\ TARGET_SEGMENT_CHARS = l[2]

\* the text to be spoken grows by one piece
TypePiece(piece) ==
  /\ ~splitDone
  /\ pieces < MaxPieces
  /\ ttsText' = ttsText \o piece
  /\ pieces' = pieces + 1
  /\ UNCHANGED <<segments, splitDone, MAX_SEGMENT_CHARS, TARGET_SEGMENT_CHARS,
                 modeVars, turnVars, playVars, shutVars, audioVars,
                 payloadVars, agentVars, otherVars>>

\* synthesize calls splitIntoSegments on the trimmed text
Split ==
  /\ ~splitDone
  /\ segments' = IF trim(ttsText) = <<>> THEN <<>>
                 ELSE splitIntoSegments(trim(ttsText))
  /\ splitDone' = TRUE
  /\ UNCHANGED <<ttsText, pieces, MAX_SEGMENT_CHARS, TARGET_SEGMENT_CHARS,
                 modeVars, turnVars, playVars, shutVars, audioVars,
                 payloadVars, agentVars, otherVars>>

NextSegmenter ==
  \/ \E piece \in Pieces : TypePiece(piece)
  \/ Split

(***************************************************************************)
(* Part VII, extractTranscript (src/voice-agent.js, src/unnamed/part_006). *)
(* A payload is a tree of JSON values: a node has a type (what typeof and  *)
(* Array.isArray tell of it) and a value v: the characters of a string,    *)
(* the entries of an array, the fields of an object.                       *)
(***************************************************************************)
null == [type |-> "null", v |-> <<>>]
undefined == [type |-> "undefined", v |-> <<>>]
number(digits) == [type |-> "number", v |-> digits]
str(chars) == [type |-> "string", v |-> chars]
arr(entries) == [type |-> "array", v |-> entries]
obj(fields) == [type |-> "object", v |-> fields]

\* !node
falsy(node) ==
  \/ node.type \in {"null", "undefined"}
  \/ node.type = "string" /\ node.v = <<>>
  \/ node.type = "number" /\ node.v = <<"0">>

\* node.key
field(node, key) == IF key \in DOMAIN node.v THEN node.v[key] ELSE undefined

\* a consider without the set of seen strings
consider_forgetful(c, value) ==
  IF value.type # "string" THEN c
  ELSE LET text == trim(value.v) IN
       IF text = <<>> THEN c
       ELSE [best |-> IF Len(text) >= Len(c.best) THEN text ELSE c.best,
             seen |-> c.seen \cup {text}]

\* consider: c is the pair of best and seen
consider(c, value) ==
  IF value.type # "string" THEN c
  ELSE LET text == trim(value.v) IN
       IF text = <<>> THEN c
       ELSE IF text \in c.seen THEN c
       ELSE [best |-> IF Len(text) >= Len(c.best) THEN text ELSE c.best,
             seen |-> c.seen \cup {text}]

RECURSIVE visit(_, _)
RECURSIVE visitEach(_, _)
\* for (const entry of node) visit(entry)
visitEach(entries, c) ==
  IF entries = <<>> THEN c
  ELSE visitEach(Tail(entries), visit(Head(entries), c))

visit(node, c) ==
  IF falsy(node) THEN c
  ELSE IF node.type = "string" THEN consider(c, node)
  ELSE IF node.type = "array" THEN visitEach(node.v, c)
  ELSE IF node.type # "object" THEN c
  ELSE
    LET c1 == consider(c, field(node, "transcript"))
        c2 == consider(c1, field(node, "text"))
        c3 == consider(c2, field(node, "value"))
        c4 == IF "partial" \in DOMAIN node.v THEN visit(node.v["partial"], c3) ELSE c3
        c5 == IF "delta" \in DOMAIN node.v THEN visit(node.v["delta"], c4) ELSE c4
        c6 == IF "content" \in DOMAIN node.v THEN visit(node.v["content"], c5) ELSE c5
        c7 == IF "item" \in DOMAIN node.v THEN visit(node.v["item"], c6) ELSE c6
    IN IF field(node, "items").type = "array"
         THEN visitEach(field(node, "items").v, c7)
         ELSE c7

extractTranscript(m) == visit(m, [best |-> <<>>, seen |-> {}]).best

(***************************************************************************)
(* Part VII, the events: a payload is put together from the inside out,    *)
(* and extractTranscript is applied to it.                                 *)
(***************************************************************************)
\* the field names extractTranscript looks at, and one it does not
Keys ==
  {"transcript", "text", "value", "partial", "delta", "content", "item",
   "items", "type"}

\* what a payload starts from
Seeds ==
  { arr(<<>>), obj(<<>>), null, number(<<"7">>), number(<<"0">>),
    str(<<>>), str(<<" ">>), str(<<" ", "A", " ">>) }

\* what is pushed onto an array
Entries ==
  { str(<<"A", "B">>), str(<<"C", "D">>), null, number(<<"7">>),
    obj([k \in {"transcript"} |-> str(<<"A">>)]),
    obj([k \in {"text"} |-> str(<<"A", "B", "C">>)]) }

\* what is put into a field of an object
Values == { str(<<"A", "B">>), str(<<"C", "D">>), str(<<"A", "B", "C">>) }

InitPayload ==
  /\ payload \in Seeds
  /\ nodes = 1
  /\ transcript = <<>>
  /\ extracted = FALSE

InitNoPayload ==
  /\ payload = null
  /\ nodes = 1
  /\ transcript = <<>>
  /\ extracted = FALSE

\* the payload becomes the field key of a new object
Wrap(key) ==
  /\ ~extracted
  /\ nodes < MaxNodes
  /\ payload' = obj([k \in {key} |-> payload])
  /\ nodes' = nodes + 1
  /\ UNCHANGED <<transcript, extracted, modeVars, turnVars, playVars, shutVars,
                 audioVars, segmenterVars, agentVars, otherVars>>

\* the payload becomes the one entry of a new array
WrapArray ==
  /\ ~extracted
  /\ nodes < MaxNodes
  /\ payload' = arr(<<payload>>)
  /\ nodes' = nodes + 1
  /\ UNCHANGED <<transcript, extracted, modeVars, turnVars, playVars, shutVars,
                 audioVars, segmenterVars, agentVars, otherVars>>

\* an array gets one more entry
Push(entry) ==
  /\ ~extracted
  /\ nodes < MaxNodes
  /\ payload.type = "array"
  /\ payload' = arr(Append(payload.v, entry))
  /\ nodes' = nodes + 1
  /\ UNCHANGED <<transcript, extracted, modeVars, turnVars, playVars, shutVars,
                 audioVars, segmenterVars, agentVars, otherVars>>

\* an object gets one more field
Put(key, value) ==
  /\ ~extracted
  /\ nodes < MaxNodes
  /\ payload.type = "object"
  /\ key \notin DOMAIN payload.v
  /\ payload' = obj([k \in DOMAIN payload.v \cup {key} |->
                       IF k = key THEN value ELSE payload.v[k]])
  /\ nodes' = nodes + 1
  /\ UNCHANGED <<transcript, extracted, modeVars, turnVars, playVars, shutVars,
                 audioVars, segmenterVars, agentVars, otherVars>>

\* handleTranscriptionEnvelope applies extractTranscript to the payload
Extract ==
  /\ ~extracted
  /\ transcript' = extractTranscript(payload)
  /\ extracted' = TRUE
  /\ UNCHANGED <<payload, nodes, modeVars, turnVars, playVars, shutVars,
                 audioVars, segmenterVars, agentVars, otherVars>>

NextPayload ==
  \/ \E key \in Keys : Wrap(key)
  \/ WrapArray
  \/ \E entry \in Entries : Push(entry)
  \/ \E key \in {"text", "value"}, value \in Values : Put(key, value)
  \/ Extract

(***************************************************************************)
(* Part VIII, the classification of transcripts in src/voice-agent.js:     *)
(* logPartial, handleFinalTranscript and processTranscriptPayload.  The    *)
(* last two carry the prefix agent here, their names being taken by the    *)
(* functions of part_006 above.  Their state is lastPartialTranscript,     *)
(* the texts handed to handleFinalTranscript and the lines it logged as    *)
(* [speech:final].                                                         *)
(***************************************************************************)
AgentState ==
  [lastPartialTranscript |-> lastPartialTranscript, handed |-> handed,
   speechFinal |-> speechFinal]

logPartial(c, text) ==
  IF text = <<>> THEN c
  ELSE IF text = c.lastPartialTranscript THEN c
  ELSE [c EXCEPT !.lastPartialTranscript = text]

\* handleFinalTranscript up to its await of logMeetingNote
agentHandleFinalTranscript(c, raw) ==
  LET normalized == ensureTrailingPunctuation(trim(raw))
      c1 == [c EXCEPT !.handed = Append(@, raw)]
  IN IF normalized = <<>> THEN c1
     ELSE [c1 EXCEPT !.lastPartialTranscript = <<>>,
                     !.speechFinal = Append(@, normalized)]

\* a classification that looks at the text before the stage
agentProcessTranscriptPayload_textFirst(c, text, stageHint) ==
  LET stage == toLowerCase(stageHint) IN
  IF text # <<>> THEN [state |-> logPartial(c, text), handled |-> TRUE]
  ELSE IF stage \in FINAL_STAGE_HINTS
    THEN [state |-> agentHandleFinalTranscript(c, text), handled |-> TRUE]
  ELSE IF stage \in PARTIAL_STAGE_HINTS
    THEN [state |-> [c EXCEPT !.lastPartialTranscript = <<>>], handled |-> TRUE]
  ELSE [state |-> c, handled |-> FALSE]

agentProcessTranscriptPayload(c, text, stageHint) ==
  LET stage == toLowerCase(stageHint) IN
  IF stage \in FINAL_STAGE_HINTS
    THEN [state |-> agentHandleFinalTranscript(c, text), handled |-> TRUE]
  ELSE IF text # <<>> THEN [state |-> logPartial(c, text), handled |-> TRUE]
  ELSE IF stage \in PARTIAL_STAGE_HINTS
    THEN [state |-> [c EXCEPT !.lastPartialTranscript = <<>>], handled |-> TRUE]
  ELSE [state |-> c, handled |-> FALSE]

(***************************************************************************)
(* Part VIII, the events.                                                  *)
(***************************************************************************)
\* the transcripts extractTranscript hands over: none, hello, done., hi,
\* a padded hi, desu, soudesuka, neko, 7, and desu with its full stop
PayloadTexts ==
  { <<>>, <<"h", "e", "l", "l", "o">>, <<"d", "o", "n", "e", ".">>,
    <<"h", "i">>, <<" ", "h", "i", " ">>, <<"de", "su">>,
    <<"so", "u", "de", "su", "ka">>, <<"ne", "ko">>, <<"7">>,
    <<"de", "su", "maru">> }

\* the stages of the events: final ones, partial ones, one that is neither,
\* and none
PayloadStages == { "completed", "COMPLETED", "delta", "Delta", "failed", "" }

InitAgent ==
  /\ lastPartialTranscript = <<>>
  /\ handed = <<>>
  /\ speechFinal = <<>>
  /\ payloads = <<>>
  /\ handled = FALSE

\* handleTranscriptionEnvelope calls processTranscriptPayload
Payload(text, stageHint) ==
  /\ Len(payloads) < MaxPayloads
  /\ LET p == agentProcessTranscriptPayload(AgentState, text, stageHint) IN
       /\ lastPartialTranscript' = p.state.lastPartialTranscript
       /\ handed' = p.state.handed
       /\ speechFinal' = p.state.speechFinal
       /\ handled' = p.handled
  /\ payloads' = Append(payloads, [text |-> text, stage |-> stageHint])
  /\ UNCHANGED <<modeVars, turnVars, playVars, shutVars, audioVars,
                 segmenterVars, payloadVars, otherVars>>

NextAgent == \E text \in PayloadTexts, stageHint \in PayloadStages : Payload(text, stageHint)

(***************************************************************************)
(* Part IX, the functions on PCM16 buffers of src/unnamed/part_000:        *)
(* normalize and resampleLinear.  A buffer is the sequence of its samples; *)
(* a rate is a number or, when it is not finite, marked as such.           *)
(***************************************************************************)
abs(x) == IF x < 0 THEN -x ELSE x

max(a, b) == IF a >= b THEN a ELSE b

\* Math.round(num / den) for den > 0: the nearest integer, a half going up
round(num, den) == (2 * num + den) \div (2 * den)

RECURSIVE peakOf(_)
\* the first loop of normalize
peakOf(samples) ==
  IF samples = <<>> THEN 0 ELSE max(abs(Head(samples)), peakOf(Tail(samples)))

\* a normalize that scales whatever the peak is
normalize_always(samples) ==
  LET peak == peakOf(samples) IN
  IF peak = 0 THEN samples
  ELSE [i \in 1 .. Len(samples) |->
          max(INT16_MIN, min(INT16_MAX, round(samples[i] * NORMALIZE_PEAK, peak)))]

normalize(samples) ==
  LET peak == peakOf(samples) IN
  IF peak = 0 \/ peak >= NORMALIZE_PEAK THEN samples
  ELSE [i \in 1 .. Len(samples) |->
          max(INT16_MIN, min(INT16_MAX, round(samples[i] * NORMALIZE_PEAK, peak)))]

hertz(hz) == [finite |-> TRUE, hz |-> hz]
notFinite == [finite |-> FALSE, hz |-> 0]

\* int16[idx] ?? otherwise, idx counted from 0
at(int16, idx, otherwise) ==
  IF idx + 1 \in 1 .. Len(int16) THEN int16[idx + 1] ELSE otherwise

\* resampleLinear: ratio is from / toRate, so that floor(length / ratio) is
\* floor(length * toRate / from), pos is i * from / toRate and frac is what
\* is left of it over idx
resampleLinear(int16, fromRate, toRate) ==
  LET from == IF ~fromRate.finite \/ fromRate.hz <= 0
                THEN PLAYBACK_SAMPLE_RATE ELSE fromRate.hz
  IN IF from = toRate THEN int16
     ELSE LET newLength == max(1, (Len(int16) * toRate) \div from)
          IN [k \in 1 .. newLength |->
                LET i == k - 1
                    idx == (i * from) \div toRate
                    part == (i * from) % toRate
                    current == at(int16, idx, 0)
                    next == at(int16, idx + 1, current)
                IN round(current * (toRate - part) + next * part, toRate)]

(***************************************************************************)
(* Part IX, the events: a buffer is filled sample by sample, and one of    *)
(* the functions is applied to it.                                         *)
(***************************************************************************)
\* the samples a buffer is filled with
SampleValues == {-32768, -20000, -1, 0, 1, 15000, 29999, 30000, 32767}

\* the rates a buffer comes at
FromRates ==
  { hertz(8000), hertz(12000), hertz(24000), hertz(44100), hertz(48000),
    hertz(96000), hertz(0), hertz(-1), notFinite }

\* the rate a buffer is resampled to: enqueue, the one caller, passes
\* PLAYBACK_SAMPLE_RATE
ToRates == {PLAYBACK_SAMPLE_RATE}

InitPcm ==
  /\ pcm = <<>>
  /\ pcmRates = <<notFinite, PLAYBACK_SAMPLE_RATE>>
  /\ pcmOut = <<>>
  /\ pcmOp = "none"

AddSample(value) ==
  /\ pcmOp = "none"
  /\ Len(pcm) < MaxSamples
  /\ pcm' = Append(pcm, value)
  /\ UNCHANGED <<pcmRates, pcmOut, pcmOp, modeVars, turnVars, playVars,
                 shutVars, audioVars, segmenterVars, payloadVars, agentVars,
                 todoVars>>

Normalize ==
  /\ pcmOp = "none"
  /\ pcmOut' = normalize(pcm)
  /\ pcmOp' = "normalize"
  /\ UNCHANGED <<pcm, pcmRates, modeVars, turnVars, playVars,
                 shutVars, audioVars, segmenterVars, payloadVars, agentVars,
                 todoVars>>

Resample(fromRate, toRate) ==
  /\ pcmOp = "none"
  /\ pcmOut' = resampleLinear(pcm, fromRate, toRate)
  /\ pcmRates' = <<fromRate, toRate>>
  /\ pcmOp' = "resample"
  /\ UNCHANGED <<pcm, modeVars, turnVars, playVars,
                 shutVars, audioVars, segmenterVars, payloadVars, agentVars,
                 todoVars>>

NextPcm ==
  \/ \E value \in SampleValues : AddSample(value)
  \/ Normalize
  \/ \E fromRate \in FromRates, toRate \in ToRates : Resample(fromRate, toRate)

(***************************************************************************)
(* Part X, src/voice-agent.js: the TODO store.  todos.json is "missing",   *)
(* "corrupt" (JSON.parse throws) or "json" with the entries it holds.  A    *)
(* call of the store is suspended in                                       *)
(*   "mkdir"     : ensureTodosLoaded awaits fs.promises.mkdir              *)
(*   "read"      : readFile has been issued and has not read the file yet  *)
(*   "callback"  : the file has been read, the promise reaction has not run*)
(*   "initWrite" : the catch branch awaits persistTodos                    *)
(*   "write"     : the operation awaits persistTodos                       *)
(* and is "done" after it has returned.  What runs between two awaits runs  *)
(* unseparated: the reactions of a settled promise are microtasks.         *)
(***************************************************************************)
file(kind, entries) == [kind |-> kind, entries |-> entries]

noFile == file("none", <<>>)

noTodo == [id |-> 0, description |-> <<>>, done |-> FALSE]

getSafeTodoDescription(description) == trim(description)

cloneTodoEntry(entry) ==
  [id |-> entry.id, description |-> entry.description, done |-> entry.done]

RECURSIVE insertById(_, _)
insertById(sorted, entry) ==
  IF sorted = <<>> THEN <<entry>>
  ELSE IF entry.id < Head(sorted).id THEN <<entry>> \o sorted
  ELSE <<Head(sorted)>> \o insertById(Tail(sorted), entry)

RECURSIVE sortById(_)
\* normalized.sort((a, b) => a.id - b.id): a stable sort
sortById(entries) ==
  IF entries = <<>> THEN <<>>
  ELSE insertById(sortById(SubSeq(entries, 1, Len(entries) - 1)),
                  entries[Len(entries)])

RECURSIVE maxIdOf(_)
maxIdOf(entries) ==
  IF entries = <<>> THEN 0 ELSE max(Head(entries).id, maxIdOf(Tail(entries)))

\* parsed is the array that JSON.parse returned
loadTodosFromParsed(t, parsed) ==
  LET kept == SelectSeq(parsed, LAMBDA entry : entry.id > 0)
      normalized == [i \in 1 .. Len(kept) |->
                       [id |-> kept[i].id,
                        description |-> getSafeTodoDescription(kept[i].description),
                        done |-> kept[i].done]]
  IN [t EXCEPT !.todos = sortById(normalized),
               !.nextId = max(maxIdOf(normalized) + 1, 1)]

\* JSON.stringify of the entries; the file that writeFile will leave
serializeTodos(t) ==
  file("json", [i \in 1 .. Len(t.todos) |-> cloneTodoEntry(t.todos[i])])

\* findTodoIndexById, 1-based; 0 stands for -1
findTodoIndexById(t, id) ==
  IF \E i \in 1 .. Len(t.todos) : t.todos[i].id = id
    THEN CHOOSE i \in 1 .. Len(t.todos) :
           /\ t.todos[i].id = id
           /\ \A j \in 1 .. i - 1 : t.todos[j].id # id
    ELSE 0

\* todos.splice(index, 1)
splice(todos, index) ==
  SubSeq(todos, 1, index - 1) \o SubSeq(todos, index + 1, Len(todos))

\* a call as it stands after a step: the store, its suspension, the file
\* content it holds (read, or to be written), the todo addTodo will return,
\* the id it has given out and the id it has removed (0: none)
step(t, pc, data, todo, assigned, removed) ==
  [state |-> t, pc |-> pc, data |-> data, todo |-> todo,
   assigned |-> assigned, removed |-> removed]

\* addTodo from the return of ensureTodosLoaded to its await of persistTodos
addTodo(t, description) ==
  LET safeDescription == getSafeTodoDescription(description)
      todo == [id |-> t.nextId, description |-> safeDescription, done |-> FALSE]
      t1 == [t EXCEPT !.nextId = @ + 1, !.todos = Append(@, todo)]
  IN IF safeDescription = <<>>
       THEN step(t, "done", noFile, noTodo, 0, 0)
       ELSE step(t1, "write", serializeTodos(t1), cloneTodoEntry(todo), todo.id, 0)

\* removeTodo from the return of ensureTodosLoaded to its await of persistTodos
removeTodo(t, id) ==
  LET index == findTodoIndexById(t, id)
      t1 == [t EXCEPT !.todos = splice(@, index)]
  IN IF index = 0
       THEN step(t, "done", noFile, noTodo, 0, 0)
       ELSE step(t1, "write", serializeTodos(t1), noTodo, 0, id)

\* what follows `await ensureTodosLoaded()` in the caller
afterLoaded(t, call) ==
  IF call.op = "add" THEN addTodo(t, call.description)
  ELSE IF call.op = "remove" THEN removeTodo(t, call.id)
  ELSE step(t, "done", noFile, noTodo, 0, 0)

\* the reactions to the settled readFile: then (JSON.parse and
\* loadTodosFromParsed) or catch (an empty store, persistTodos), and when
\* nothing is awaited, loaded = true and the caller's continuation
readSettled(t, call) ==
  IF call.data.kind = "json"
    THEN afterLoaded([loadTodosFromParsed(t, call.data.entries)
                        EXCEPT !.loaded = TRUE], call)
    ELSE LET t1 == [t EXCEPT !.todos = <<>>, !.nextId = 1]
         IN step(t1, "initWrite", serializeTodos(t1), noTodo, 0, 0)

\* the await of persistTodos in ensureTodosLoaded resumes
initWritten(t, call) == afterLoaded([t EXCEPT !.loaded = TRUE], call)

(***************************************************************************)
(* Part X, the events.                                                     *)
(***************************************************************************)
oldTodo == [id |-> 1, description |-> <<"o">>, done |-> TRUE]

\* todos.json when the program starts
TodoFiles ==
  { file("missing", <<>>), file("corrupt", <<>>), file("json", <<>>),
    file("json", <<oldTodo>>) }

TodoDescriptions == { <<>>, <<"m">>, <<" ", "e">> }

TodoOperations ==
  {[op |-> "load", description |-> <<>>, id |-> 0]}
    \cup {[op |-> "add", description |-> d, id |-> 0] : d \in TodoDescriptions}
    \cup {[op |-> "remove", description |-> <<>>, id |-> i] : i \in 1 .. 2}

InitTodoStore ==
  /\ todoState = [loaded |-> FALSE, nextId |-> 1, todos |-> <<>>]
  /\ todoFile \in TodoFiles
  /\ todoCalls = <<>>
  /\ todoReturned = {}
  /\ todoRemoved = {}
  /\ todoAssigned = {}

InitNoTodos == InitTodoStore /\ todoFile = file("missing", <<>>)

\* the step `s` of call c takes effect
TodoBecomes(c, s) ==
  /\ todoState' = s.state
  /\ todoCalls' = [todoCalls EXCEPT ![c].pc = s.pc, ![c].data = s.data,
                                     ![c].todo = s.todo]
  /\ todoAssigned' = IF s.assigned = 0 THEN todoAssigned
                     ELSE todoAssigned \cup {[id |-> s.assigned, call |-> c]}
  /\ todoRemoved' = IF s.removed = 0 THEN todoRemoved
                    ELSE todoRemoved \cup {s.removed}

\* ensureTodosLoaded, addTodo or removeTodo is called
TodoCall(operation) ==
  /\ Len(todoCalls) < MaxTodoCalls
  /\ LET c == Len(todoCalls) + 1
         call == [op |-> operation.op, description |-> operation.description,
                  id |-> operation.id, pc |-> "mkdir", data |-> noFile,
                  todo |-> noTodo]
         s == IF todoState.loaded
                THEN afterLoaded(todoState, call)
                ELSE step(todoState, "mkdir", noFile, noTodo, 0, 0)
     IN /\ todoState' = s.state
        /\ todoCalls' = Append(todoCalls,
                           [call EXCEPT !.pc = s.pc, !.data = s.data,
                                        !.todo = s.todo])
        /\ todoAssigned' = IF s.assigned = 0 THEN todoAssigned
                           ELSE todoAssigned \cup {[id |-> s.assigned, call |-> c]}
        /\ todoRemoved' = IF s.removed = 0 THEN todoRemoved
                          ELSE todoRemoved \cup {s.removed}
  /\ UNCHANGED <<todoFile, todoReturned>>
  /\ UNCHANGED <<modeVars, turnVars, playVars, shutVars, audioVars,
                 segmenterVars, payloadVars, agentVars, pcmVars>>

\* mkdir settles (a failure is logged and passed over): readFile is issued
MkdirSettles(c) ==
  /\ c \in 1 .. Len(todoCalls)
  /\ todoCalls[c].pc = "mkdir"
  /\ todoCalls' = [todoCalls EXCEPT ![c].pc = "read"]
  /\ UNCHANGED <<todoState, todoFile, todoReturned, todoRemoved, todoAssigned>>
  /\ UNCHANGED <<modeVars, turnVars, playVars, shutVars, audioVars,
                 segmenterVars, payloadVars, agentVars, pcmVars>>

\* the file system reads todos.json for call c
FileRead(c) ==
  /\ c \in 1 .. Len(todoCalls)
  /\ todoCalls[c].pc = "read"
  /\ todoCalls' = [todoCalls EXCEPT ![c].pc = "callback", ![c].data = todoFile]
  /\ UNCHANGED <<todoState, todoFile, todoReturned, todoRemoved, todoAssigned>>
  /\ UNCHANGED <<modeVars, turnVars, playVars, shutVars, audioVars,
                 segmenterVars, payloadVars, agentVars, pcmVars>>

\* the promise of readFile settles for call c
ReadSettles(c) ==
  /\ c \in 1 .. Len(todoCalls)
  /\ todoCalls[c].pc = "callback"
  /\ TodoBecomes(c, readSettled(todoState, todoCalls[c]))
  /\ UNCHANGED <<todoFile, todoReturned>>
  /\ UNCHANGED <<modeVars, turnVars, playVars, shutVars, audioVars,
                 segmenterVars, payloadVars, agentVars, pcmVars>>

\* writeFile settles for call c; ok: whether it wrote the file (persistTodos
\* logs a failure and resolves)
WriteSettles(c, ok) ==
  /\ c \in 1 .. Len(todoCalls)
  /\ todoCalls[c].pc \in {"initWrite", "write"}
  /\ todoFile' = IF ok THEN todoCalls[c].data ELSE todoFile
  /\ IF todoCalls[c].pc = "initWrite"
       THEN /\ TodoBecomes(c, initWritten(todoState, todoCalls[c]))
            /\ UNCHANGED todoReturned
       ELSE /\ TodoBecomes(c, step(todoState, "done", noFile, noTodo, 0, 0))
            /\ todoReturned' =
                 IF todoCalls[c].op = "add"
                   THEN todoReturned \cup
                          {[id |-> todoCalls[c].todo.id,
                            description |-> todoCalls[c].todo.description,
                            call |-> c]}
                   ELSE todoReturned
  /\ UNCHANGED <<modeVars, turnVars, playVars, shutVars, audioVars,
                 segmenterVars, payloadVars, agentVars, pcmVars>>

NextTodos ==
  \/ \E operation \in TodoOperations : TodoCall(operation)
  \/ \E c \in 1 .. MaxTodoCalls : MkdirSettles(c)
  \/ \E c \in 1 .. MaxTodoCalls : FileRead(c)
  \/ \E c \in 1 .. MaxTodoCalls : ReadSettles(c)
  \/ \E c \in 1 .. MaxTodoCalls, ok \in BOOLEAN : WriteSettles(c, ok)

(***************************************************************************)
(* The specifications.                                                     *)
(***************************************************************************)
Init == InitMode /\ InitTurn /\ InitNoTts /\ InitNoShutdown /\ InitNoPlayer
    /\ InitDefaultLimits /\ InitNoPayload /\ InitAgent /\ InitPcm /\ InitNoTodos

Spec == Init /\ [][Next]_vars

SpecTurn == Init /\ [][NextTurn]_vars

InitLimited == InitMode /\ InitTurnLimited /\ InitNoTts /\ InitNoShutdown /\ InitNoPlayer
    /\ InitDefaultLimits /\ InitNoPayload /\ InitAgent /\ InitPcm /\ InitNoTodos

\* the utterance queue under a small history limit
SpecTurnLimited == InitLimited /\ [][NextTurn]_vars

\* addToConversation on its own: one non-system message is added
AddItem(role) ==
  /\ Len(added) < MaxAdded
  /\ LET it == createMessage(role, Len(added) + 1)
     IN /\ conversation' = addToConversation(conversation, it)
        /\ added' = Append(added, it)
  /\ UNCHANGED <<pendingUtterances, processingQueue, loops, turnLog, inputVars,
                 MAX_HISTORY_ITEMS, modeVars, playVars, extVars>>

NextPrune == \E role \in {"user", "assistant"} : AddItem(role)

SpecPrune == InitLimited /\ [][NextPrune]_vars

\* every backend call and every tool call settles, and a suspended
\* processQueue resumes once the promise it awaits has settled
SpecTurnFair ==
  /\ SpecTurn
  /\ \A i \in 1 .. MaxLoops :
       /\ WF_vars(BackendFails(i)
                  \/ \E speaks \in BOOLEAN, n \in 0 .. MaxToolCalls :
                       BackendReturns(i, speaks, n))
       /\ WF_vars(\E ok \in BOOLEAN : ToolCallSettles(i, ok))
       /\ WF_vars(LoopResumes(i))

InitPlay == InitMode /\ InitTurn /\ InitTts /\ InitNoShutdown /\ InitNoPlayer
    /\ InitDefaultLimits /\ InitNoPayload /\ InitAgent /\ InitPcm /\ InitNoTodos

InitExit ==
  InitMode /\ InitTurn /\ InitTts /\ InitServers /\ InitNoPlayer
    /\ InitDefaultLimits /\ InitNoPayload /\ InitAgent /\ InitPcm /\ InitNoTodos

InitEngine ==
  InitMode /\ InitTurn /\ InitNoTts /\ InitNoShutdown /\ InitPlayer
    /\ InitDefaultLimits /\ InitNoPayload /\ InitAgent /\ InitPcm /\ InitNoTodos

SpecAudio == InitEngine /\ [][NextAudio]_vars

InitTexts ==
  InitMode /\ InitTurn /\ InitNoTts /\ InitNoShutdown /\ InitNoPlayer /\ InitLimits
    /\ InitNoPayload /\ InitAgent /\ InitPcm /\ InitNoTodos

SpecSegmenter == InitTexts /\ [][NextSegmenter]_vars

InitExtract ==
  InitMode /\ InitTurn /\ InitNoTts /\ InitNoShutdown /\ InitNoPlayer
    /\ InitSegmenter /\ MAX_SEGMENT_CHARS = 70 /\ TARGET_SEGMENT_CHARS = 30
    /\ InitPayload /\ InitAgent /\ InitPcm /\ InitNoTodos

SpecExtract == InitExtract /\ [][NextPayload]_vars

SpecAgent == Init /\ [][NextAgent]_vars

SpecPcm == Init /\ [][NextPcm]_vars

InitTodos ==
  InitMode /\ InitTurn /\ InitNoTts /\ InitNoShutdown /\ InitNoPlayer
    /\ InitDefaultLimits /\ InitNoPayload /\ InitAgent /\ InitPcm /\ InitTodoStore

SpecTodos == InitTodos /\ [][NextTodos]_vars

SpecShutdown == InitExit /\ [][NextShutdown]_vars

\* every cleanup step that finalize awaits settles
SpecShutdownFair ==
  /\ SpecShutdown
  /\ WF_vars(\E ok \in BOOLEAN : CleanupStepSettles(ok))

SpecPlayback == InitPlay /\ [][NextPlayback]_vars

\* every speech request settles, and a suspended process() resumes once the
\* promise it awaits has settled
SpecPlaybackFair ==
  /\ SpecPlayback
  /\ \A i \in 1 .. MaxSynths :
       /\ WF_vars(SpeechCreated(i) \/ SynthesisFails(i))
       /\ WF_vars(SegmentArrives(i) \/ SynthesisFails(i))
       /\ WF_vars(ProcessResumes(i))

(***************************************************************************)
(* Part I, the properties.                                                 *)
(***************************************************************************)
elements(list) == { list[i] : i \in 1 .. Len(list) }

selectedId == idAt(targets, targetIndex)

isFinalStage(stageHint) == toLowerCase(stageHint) \in FINAL_STAGE_HINTS

\* C1: Dispatch gate.  A final transcript with non-empty text is handed to
\* sendToTarget if and only if mode = ACTIVE and a target is selected when it
\* is handled; in DETECT the finalized text becomes the displayed transcript
\* and nothing is dispatched; in OFF nothing is dispatched.  No other step
\* starts a dispatch.
DispatchGate ==
  [][ /\ \A text \in Transcripts, stageHint \in StageHints :
           ( /\ isFinalStage(stageHint)
             /\ trim(text) # <<>>
             /\ Transcript(text, stageHint) )
           => /\ (Len(sendsInFlight') = Len(sendsInFlight) + 1)
                   <=> (mode = "active" /\ targetIndex # -1)
              /\ mode = "detect" =>
                   /\ partialText' = ensureTrailingPunctuation(trim(text))
                   /\ sendsInFlight' = sendsInFlight
              /\ mode = "off" => sendsInFlight' = sendsInFlight
      /\ Len(sendsInFlight') > Len(sendsInFlight)
           => mode = "active" /\ targetIndex # -1 ]_vars

\* C1 witness: a final transcript has been handed to sendToTarget in ACTIVE.
DispatchGateWitness ==
  /\ sendsInFlight # <<>>
  /\ mode = "active"
  /\ targetIndex # -1

\* C2: Audio gate.  In every reachable state handleMicData would forward a
\* frame only if mode # OFF, and every step that forwards a frame starts in a
\* state with mode # OFF.
AudioGate ==
  /\ [](handleMicData(State).sendCount # sendCount => mode # "off")
  /\ [][sendCount' > sendCount => mode # "off"]_vars

\* C2 witness: a frame has been forwarded.
AudioGateWitness == sendCount > 0 /\ mode # "off" /\ ws = "open"

\* C3: An advance in DETECT yields ACTIVE only with a non-empty list and a
\* selected target; otherwise it yields OFF and shows one of the two reasons.
\* With no targets the advance from OFF gives DETECT, the next one OFF.
AdvanceFromDetect ==
  [][ \A micOk \in BOOLEAN :
        Toggle(micOk) =>
          /\ (mode = "detect" /\ mode' = "active")
               => Len(targets) > 0 /\ targetIndex # -1
          /\ (mode = "detect" /\ ~(Len(targets) > 0 /\ targetIndex # -1))
               => /\ mode' = "off"
                  /\ message' \in {"noTargetsBackToOff", "selectTargetBackToOff"}
          /\ (mode = "off" /\ targets = <<>> /\ ~closing') => mode' = "detect"
          /\ (mode = "detect" /\ targets = <<>>)
               => mode' = "off" /\ message' = "noTargetsBackToOff" ]_vars

\* C3 witness: the advance in DETECT with no targets has fallen back to OFF.
AdvanceFromDetectWitness ==
  /\ mode = "off"
  /\ targets = <<>>
  /\ message = "noTargetsBackToOff"

\* C4: The initial mode is OFF.  While the process keeps running, an advance
\* from OFF yields DETECT with the microphone started and both timeouts armed
\* at their full duration; an advance from ACTIVE yields OFF with the
\* microphone stopped.
AdvanceFromOffAndActive ==
  /\ mode = "off"
  /\ [][ \A micOk \in BOOLEAN :
           Toggle(micOk) =>
             /\ (mode = "off" /\ ~closing')
                  => /\ mode' = "detect"
                     /\ mic'
                     /\ transcriptAutoOffTimer' = "pending"
                     /\ transcriptTimeoutExpiresAt' = TranscriptTicks
                     /\ detectAutoOffTimer' = "pending"
                     /\ detectModeExpiresAt' = DetectTicks
             /\ mode = "active" => mode' = "off" /\ ~mic' ]_vars

\* C4 witness: the advance from OFF has just entered DETECT with a target
\* list and a selection in place.
AdvanceFromOffWitness ==
  /\ mode = "detect"
  /\ message = "detectStarted"
  /\ mic
  /\ detectModeExpiresAt = DetectTicks
  /\ transcriptTimeoutExpiresAt = TranscriptTicks
  /\ targetIndex # -1

\* C5: Inactivity auto-OFF.  While the process runs in a mode other than OFF
\* the inactivity timeout is pending with at most its full duration left, and
\* its expiry sets the mode to OFF.  Every non-empty partial or final
\* transcript whose processing completes in a mode other than OFF leaves the
\* timeout at its full duration; within one mode nothing else extends it.
InactivityAutoOff ==
  /\ []( (mode # "off" /\ ~closing)
           => /\ transcriptAutoOffTimer = "pending"
              /\ transcriptTimeoutExpiresAt \in 0 .. TranscriptTicks )
  /\ [][ /\ TranscriptAutoOffFires => mode' = "off"
         /\ \A text \in Transcripts, stageHint \in StageHints :
              ( /\ text # <<>>
                /\ mode # "off"
                /\ sendsInFlight' = sendsInFlight
                /\ Transcript(text, stageHint) )
              => transcriptTimeoutExpiresAt' = TranscriptTicks
         /\ \A i \in 1 .. MaxSendInFlight, ok \in BOOLEAN :
              (mode # "off" /\ SendComplete(i, ok))
              => transcriptTimeoutExpiresAt' = TranscriptTicks
         /\ ( /\ mode # "off"
              /\ mode' = mode
              /\ transcriptTimeoutExpiresAt' > transcriptTimeoutExpiresAt )
            => \/ \E text \in Transcripts \ {<<>>}, stageHint \in StageHints :
                    Transcript(text, stageHint)
               \/ \E i \in 1 .. MaxSendInFlight, ok \in BOOLEAN :
                    SendComplete(i, ok) ]_vars

\* C5 witness: in DETECT time has passed (the DETECT timeout has run down)
\* and a transcript has put the inactivity timeout back to its full duration.
InactivityAutoOffWitness ==
  /\ mode = "detect"
  /\ partialText # <<>>
  /\ detectModeExpiresAt < DetectTicks
  /\ transcriptTimeoutExpiresAt = TranscriptTicks

\* C6: DETECT hard timeout.  While the process runs in DETECT the DETECT
\* timeout is pending; every entry into DETECT arms it at its full duration;
\* while the mode stays DETECT no step (transcript activity included) moves
\* the expiry later; its expiry in DETECT sets the mode to OFF; outside
\* DETECT the timeout is not armed, so it cannot change the mode.
DetectHardTimeout ==
  /\ []( (mode = "detect" /\ ~closing)
           => /\ detectAutoOffTimer = "pending"
              /\ detectModeExpiresAt \in 0 .. DetectTicks )
  /\ [](mode # "detect" => detectAutoOffTimer = "null")
  /\ [][ /\ (mode # "detect" /\ mode' = "detect" /\ ~closing')
              => detectModeExpiresAt' = DetectTicks
         /\ (mode = "detect" /\ mode' = "detect")
              => detectModeExpiresAt' <= detectModeExpiresAt
         /\ DetectAutoOffFires => (mode = "detect" /\ mode' = "off") ]_vars

\* C6 witness: DETECT entered by the downgrade from ACTIVE, timeout armed.
DetectHardTimeoutWitness ==
  /\ mode = "detect"
  /\ message = "backToDetect"
  /\ detectAutoOffTimer = "pending"
  /\ detectModeExpiresAt = DetectTicks

\* C7: A refresh applied in ACTIVE whose new list lacks the target selected
\* when it is applied leaves the mode DETECT, the microphone running, nothing
\* selected and the DETECT timeout armed.
RefreshDowngrade ==
  [][ \A r \in BagToSet(refreshesInFlight), newTargets \in TargetLists,
         micOk \in BOOLEAN :
        ( /\ RefreshComplete(r, newTargets, micOk)
          /\ refreshChanged(r.prevTargets, newTargets)
          /\ mode = "active"
          /\ selectedId \notin elements(newTargets) )
        => /\ mode' = "detect"
           /\ mic'
           /\ targetIndex' = -1
           /\ detectAutoOffTimer' = "pending"
           /\ detectModeExpiresAt' = DetectTicks ]_vars

\* C8: Selection stability.  After a refresh is applied the selected id is
\* the id selected just before if the new list has it, and nothing otherwise.
SelectionStable ==
  [][ \A r \in BagToSet(refreshesInFlight), newTargets \in TargetLists,
         micOk \in BOOLEAN :
        ( /\ RefreshComplete(r, newTargets, micOk)
          /\ refreshChanged(r.prevTargets, newTargets) )
        => idAt(targets', targetIndex')
             = IF selectedId \in elements(newTargets) THEN selectedId ELSE "" ]_vars

(***************************************************************************)
(* Part II, the properties.                                                *)
(***************************************************************************)
\* the processQueue activations whose runTurn is executing
executing == { i \in 1 .. Len(loops) : loops[i].pc \in {"backend", "tool"} }

\* the utterances enqueueUtterance has received, in order
enqueued == [u \in 1 .. nextUtterance - 1 |-> u]

\* C9: Single in-flight turn.  In every interleaving of enqueueUtterance
\* with backend and tool completions there is at most one processQueue
\* activation and at most one executing runTurn; an utterance enqueued
\* while processQueue is active is appended to pendingUtterances and starts
\* neither a turn nor a second loop.
SingleInFlightTurn ==
  /\ [](Len(loops) <= 1)
  /\ [](Cardinality(executing) <= 1)
  /\ [](processingQueue <=> loops # <<>>)
  /\ [][ (Enqueue /\ loops # <<>>)
           => /\ pendingUtterances' = Append(pendingUtterances, nextUtterance)
              /\ loops' = loops
              /\ turnLog' = turnLog ]_vars

\* C9 witness: an utterance enqueued during the first turn waits in the queue
\* while that turn awaits a tool call.
SingleInFlightTurnWitness ==
  /\ Len(loops) = 1
  /\ loops[1].item = 1
  /\ loops[1].pc = "tool"
  /\ pendingUtterances = <<2>>

Last(seq) == seq[Len(seq)]

isUser(it) == it.type = "user"

\* the utterances whose user message the conversation holds, in its order
userItems ==
  LET msgs == SelectSeq(conversation, isUser)
  IN [k \in 1 .. Len(msgs) |-> msgs[k].item]

\* C11: Conversation order follows arrival order.  Of two user messages in
\* the conversation, the one whose final transcript arrived first on the
\* socket comes first.
ConversationFollowsArrival ==
  [](\A i, j \in 1 .. Len(userItems) :
       i < j => arrivalOf[userItems[i]] < arrivalOf[userItems[j]])

\* C12: A backend failure aborts only its turn.  The failing step leaves
\* the turn rejected inside a processQueue that is still active; a rejected
\* turn makes no further backend or tool call (its frame stays as it is until
\* processQueue resumes); the resumed processQueue takes the next queued
\* utterance or, with the queue empty, resets processingQueue; and after a
\* failure processingQueue is eventually false again and every utterance
\* queued behind the failed turn is handed to runTurn.
BackendFailureAbortsTurn ==
  /\ [][ \A i \in 1 .. MaxLoops :
           /\ BackendFails(i)
                => /\ Len(loops') = Len(loops)
                   /\ loops'[i] = [loops[i] EXCEPT !.pc = "rejected"]
                   /\ processingQueue'
                   /\ UNCHANGED <<pendingUtterances, turnLog, conversation>>
           /\ (i <= Len(loops) /\ loops[i].pc = "rejected")
                => \/ i <= Len(loops') /\ loops'[i] = loops[i]
                   \/ /\ LoopResumes(i)
                      /\ IF pendingUtterances # <<>>
                           THEN /\ loops'[i].item = Head(pendingUtterances)
                                /\ loops'[i].pc = "backend"
                                /\ processingQueue'
                           ELSE loops' = <<>> /\ ~processingQueue' ]_vars
  /\ \A u \in 1 .. MaxUtterances :
       ( /\ \E i \in 1 .. Len(loops) : loops[i].pc = "rejected"
         /\ \E k \in 1 .. Len(pendingUtterances) : pendingUtterances[k] = u )
       ~> (\E k \in 1 .. Len(turnLog) : turnLog[k] = u)
  /\ (\E i \in 1 .. Len(loops) : loops[i].pc = "rejected") ~> ~processingQueue

\* C12 witness: the first turn was rejected by a backend failure in its
\* first iteration while the second utterance waits behind it.
BackendFailureAbortsTurnWitness ==
  /\ Len(loops) = 1
  /\ loops[1].item = 1
  /\ loops[1].iteration = 0
  /\ loops[1].pc = "rejected"
  /\ pendingUtterances = <<2>>

turnRuns(u) ==
  \E i \in 1 .. Len(loops) : loops[i].item = u /\ loops[i].pc \in {"backend", "tool"}

\* C14: Bounded tool loop.  A turn that awaits the backend or a tool call
\* has completed fewer than MAX_TOOL_ITERATIONS iterations, so the backend is
\* invoked at most MAX_TOOL_ITERATIONS times in a turn (once per iteration);
\* a response without tool calls ends the turn at once; the iteration count
\* only grows, by one per handled response with tool calls; and every turn
\* that runs eventually stops running when its calls settle.
BoundedToolLoop ==
  /\ [](\A i \in 1 .. Len(loops) :
          /\ loops[i].iteration \in 0 .. MAX_TOOL_ITERATIONS
          /\ loops[i].pc \in {"backend", "tool"}
               => loops[i].iteration < MAX_TOOL_ITERATIONS)
  /\ [][ \A i \in 1 .. MaxLoops :
           /\ \A speaks \in BOOLEAN :
                BackendReturns(i, speaks, 0) => loops'[i].pc = "fulfilled"
           /\ \A speaks \in BOOLEAN, n \in 1 .. MaxToolCalls :
                BackendReturns(i, speaks, n)
                  => loops'[i].pc = "tool" /\ loops'[i].iteration = loops[i].iteration
           /\ \A ok \in BOOLEAN :
                (ToolCallSettles(i, ok) /\ loops'[i].pc = "backend")
                  => loops'[i].iteration = loops[i].iteration + 1 ]_vars
  /\ \A u \in 1 .. MaxUtterances : turnRuns(u) ~> ~turnRuns(u)

\* C14 witness: a turn has ended by reaching the iteration limit.
BoundedToolLoopWitness ==
  /\ Len(loops) = 1
  /\ loops[1].pc = "fulfilled"
  /\ loops[1].iteration = MAX_TOOL_ITERATIONS

\* the positions after k that hold the function_call_output of call id
outputsAfter(k, id) ==
  { j \in k + 1 .. Len(conversation) :
      /\ conversation[j].type = "function_call_output"
      /\ conversation[j].call_id = id }

\* the tool call with this id is being routed
routing(id) ==
  \E i \in 1 .. Len(loops) : loops[i].pc = "tool" /\ callId(loops[i]) = id

\* C15: Call/output pairing.  Every function_call in the conversation is
\* followed by exactly one function_call_output with its call_id, or by none
\* while that call is being routed; no turn is at a backend call or at its
\* end with a call still being routed; and the step that handles a settled
\* call, returned or rejected, appends the output with that call's id.
CallOutputPairing ==
  /\ [](\A k \in 1 .. Len(conversation) :
          conversation[k].type = "function_call"
          => LET id == conversation[k].call_id
             IN /\ Cardinality(outputsAfter(k, id)) = IF routing(id) THEN 0 ELSE 1
                /\ outputsAfter(0, id) = outputsAfter(k, id))
  /\ [][ \A i \in 1 .. MaxLoops, ok \in BOOLEAN :
           ToolCallSettles(i, ok)
           => /\ ~\E j \in 1 .. Len(loops') :
                     loops'[j].pc = "tool" /\ callId(loops'[j]) = callId(loops[i])
              /\ \E k \in 1 .. Len(conversation') :
                   conversation'[k] = functionCallOutput(callId(loops[i]), ok) ]_vars

\* C15 witness: a turn has ended whose only tool call was rejected; the call
\* and its error output are the last two items of the conversation.
CallOutputPairingWitness ==
  /\ Len(loops) = 1
  /\ loops[1].pc = "rejected"
  /\ Len(conversation) >= 2
  /\ conversation[Len(conversation) - 1].type = "function_call"
  /\ Last(conversation) =
       functionCallOutput(conversation[Len(conversation) - 1].call_id, FALSE)

\* the last n elements of seq, for 0 <= n <= Len(seq)
lastOf(seq, n) == SubSeq(seq, Len(seq) - n + 1, Len(seq))

\* C16: Pruning result.  After every addToConversation, for every limit
\* N >= 0, the conversation is the system items followed by the most recent
\* min(N, number added) non-system items in the order in which they were
\* added.
PruningResult ==
  [](conversation
       = <<createMessage("system", 0)>>
           \o lastOf(added, min(MAX_HISTORY_ITEMS, Len(added))))

\* C17: No orphaned half of a tool pair.  Whenever a turn awaits the
\* backend, every function_call_output in the conversation has its
\* function_call before it, and every function_call has its
\* function_call_output after it.
NoOrphanedToolPair ==
  [](\A i \in 1 .. Len(loops) :
       loops[i].pc = "backend"
       => \A k \in 1 .. Len(conversation) :
            /\ conversation[k].type = "function_call_output"
                 => \E j \in 1 .. k - 1 :
                      conversation[j] = functionCall(conversation[k].call_id)
            /\ conversation[k].type = "function_call"
                 => outputsAfter(k, conversation[k].call_id) # {})

(***************************************************************************)
(* Part III, the properties.                                               *)
(***************************************************************************)
\* the synthesize calls that have not settled
synthesizing == { i \in 1 .. Len(synths) : synths[i].pc \in {"create", "arrayBuffer"} }

\* <<utterance, segment>> pairs in the order of utterances, then of segments
before(a, b) == a[1] < b[1] \/ (a[1] = b[1] /\ a[2] < b[2])

inOrder(log) == \A a, b \in 1 .. Len(log) : a < b => before(log[a], log[b])

\* C18: at most one synthesize call is in flight; the speech requests and the
\* segments handed to audioPlayer.enqueue follow the order in which the
\* utterances were enqueued and, within an utterance, the order of its
\* segments, none of them twice; the audio player is handed a segment when,
\* and only when, its synthesis completes.
PlaybackOrdering ==
  /\ [](/\ Cardinality(synthesizing) <= 1
        /\ inOrder(requested)
        /\ inOrder(played))
  /\ [][\A i \in 1 .. MaxSynths :
          SegmentArrives(i) =>
            played' = Append(played, <<synths[i].item, synths[i].segment>>)]_vars
  /\ [][played' # played =>
          \E i \in 1 .. Len(synths) :
            /\ synths[i].pc = "arrayBuffer"
            /\ played' = Append(played, <<synths[i].item, synths[i].segment>>)]_vars

\* two segments of the first utterance and one of the second have been
\* played while the third utterance waits
PlaybackOrderingWitness ==
  /\ played = << <<1, 1>>, <<1, 2>>, <<2, 1>> >>
  /\ Len(queue) = 1
  /\ Len(synths) = 1

\* the activations of process() whose synthesize call has failed
failed == { i \in 1 .. Len(synths) : synths[i].pc = "rejected" }

queuedUtterances == { queue[k].utterance : k \in 1 .. Len(queue) }

\* C19: a failure of speech synthesis rejects only the synthesize call of
\* that utterance: the activation of process() stays, nothing is played,
\* requested again or taken from the queue on that step, and no request is
\* ever made twice; when process() resumes it goes on with the head of the
\* queue, or, with nothing left or after a shutdown, resets the processing
\* flag; an enqueue that finds the flag reset starts a new loop.  Every
\* utterance that was queued behind the failed one is requested unless the
\* queue is shut down, and the flag is reset in the end.
SynthesisFailureSkipsUtterance ==
  /\ [][\A i \in 1 .. MaxSynths :
          SynthesisFails(i) =>
            /\ synths' = [synths EXCEPT ![i].pc = "rejected"]
            /\ UNCHANGED <<queue, processing, stopped, requested, played>>]_vars
  /\ [](\A a, b \in 1 .. Len(requested) : a # b => requested[a] # requested[b])
  /\ [][\A i \in 1 .. MaxSynths :
          (i \in failed /\ ProcessResumes(i)) =>
            /\ played' = played
            /\ IF queue # <<>> /\ ~stopped
                 THEN /\ processing'
                      /\ queue' = Tail(queue)
                      /\ synths'[i].item = Head(queue).utterance
                      /\ synths'[i].pc = "create"
                      /\ requested' = Append(requested, <<Head(queue).utterance, 1>>)
                 ELSE /\ ~processing'
                      /\ synths' = <<>>
                      /\ requested' = requested]_vars
  /\ [][\A n \in 1 .. MaxSegments :
          (enabled /\ ~stopped /\ ~processing /\ PlaybackEnqueue(n)) =>
            /\ processing'
            /\ Len(synths') = 1
            /\ requested' = Append(requested, <<nextItem, 1>>)]_vars
  /\ \A u \in 1 .. MaxPlayback :
       (failed # {} /\ u \in queuedUtterances)
         ~> (stopped \/ \E a \in 1 .. Len(requested) : requested[a] = <<u, 1>>)
  /\ (failed # {}) ~> ~processing

\* the first of the two segments of utterance 1 has failed while utterance 2
\* waits in the queue
SynthesisFailureSkipsUtteranceWitness ==
  /\ Len(synths) = 1
  /\ synths[1].pc = "rejected"
  /\ synths[1].item = 1
  /\ synths[1].segments = 2
  /\ synths[1].segment = 1
  /\ queuedUtterances = {2}
  /\ ~stopped

\* C20: once shutdown() has been called no further speech request is
\* started and no segment is handed to audioPlayer.enqueue, whatever was in
\* flight, and the queue stays empty, so that later enqueues are ignored.
ShutdownDiscardsPlayback ==
  [][stopped => /\ requested' = requested
                /\ played' = played
                /\ queue' = <<>>]_vars

(***************************************************************************)
(* Part IV, the properties.                                                *)
(***************************************************************************)
\* the cleanup steps that finalize has something to do for, the socket apart
cleanupSteps ==
  {"http"} \cup (IF enabled THEN {"playback"} ELSE {})
           \cup (IF browserWsServer THEN {"browser"} ELSE {})

\* C21: when the process exits, finalize has attempted to shut down the
\* playback queue, to close the browser socket server and to close the HTTP
\* server, whichever of the earlier steps failed.
AllCleanupStepsAttempted == exitCode # NULL => cleanupSteps \subseteq attempted

requestKinds == { requests[k].kind : k \in 1 .. Len(requests) }

\* C22: cleanup runs at most once and with the code of the first shutdown
\* request, which is the code the process exits with; once shutdown has
\* begun, a further request (a signal, a startup failure, the socket's
\* 'close' event) leaves the code, the cleanup and the exit as they are.
ShutdownTakesEffectOnce ==
  /\ [](/\ cleanupRuns <= 1
        /\ shuttingDown => (cleanupRuns = 1 /\ code = requests[1].code)
        /\ exitCode # NULL => (shuttingDown /\ exitCode = requests[1].code))
  /\ [][shuttingDown =>
          /\ shuttingDown'
          /\ code' = code
          /\ cleanupRuns' = cleanupRuns
          /\ requests' # requests =>
                UNCHANGED <<attempted, finalizePc, exitCode>>]_vars

\* the process has exited with 1 after a startup failure that was followed
\* by a signal and by the 'close' event of the socket that finalize closed
ShutdownTakesEffectOnceWitness ==
  /\ exitCode = 1
  /\ Len(requests) >= 3
  /\ requests[1].kind = "startup"
  /\ {"signal", "close"} \subseteq requestKinds

(***************************************************************************)
(* Part V, the properties.                                                 *)
(***************************************************************************)
bufferedSampleCount == getBufferedSampleCount(AudioState)

\* C23: the buffered sample count is the sum of the lengths of the queued
\* buffers less bufferOffset, bufferOffset lies within the head buffer (and
\* is 0 when the queue is empty), so that the count is 0 exactly when the
\* queue is empty; an enqueue adds the length of the resampled segment and a
\* flush tick takes a block, or what is left of the count, away.
BufferAccounting ==
  /\ [](/\ bufferedSampleCount = sumOf(buffers) - bufferOffset
        /\ \A k \in 1 .. Len(buffers) : buffers[k] > 0
        /\ IF buffers = <<>> THEN bufferOffset = 0
           ELSE 0 <= bufferOffset /\ bufferOffset < Head(buffers)
        /\ bufferedSampleCount = 0 <=> buffers = <<>>)
  /\ [][\A delay \in TickDelays, pushOk \in BOOLEAN :
          FlushTick(delay, pushOk) =>
            bufferedSampleCount'
              = bufferedSampleCount - min(BLOCK_SIZE, bufferedSampleCount)]_vars
  /\ [][\A len \in SampleCounts, rate \in SampleRates, start \in StartOutcomes :
          (~playerStopped /\ AudioEnqueue(len, rate, start)) =>
            bufferedSampleCount'
              = bufferedSampleCount + resampledLength(len, rate)]_vars

\* a flush tick has taken one block of a longer head buffer, with another
\* buffer behind it
BufferAccountingWitness ==
  /\ Len(buffers) = 2
  /\ bufferOffset = BLOCK_SIZE
  /\ bufferedSampleCount = sumOf(buffers) - BLOCK_SIZE

\* C24: once shutdown has been called the queue is empty, bufferOffset is
\* 0, no timer is armed and the player is not started, and nothing changes
\* that: not a second shutdown, and no later enqueue.
AudioShutdownIsFinal ==
  /\ [](playerStopped =>
          /\ buffers = <<>>
          /\ bufferOffset = 0
          /\ ~timer
          /\ ~prefillTimer
          /\ ~playerStarted)
  /\ [][playerStopped =>
          /\ playerStopped'
          /\ UNCHANGED <<buffers, bufferOffset, timer, prefillTimer,
                         playerStarted, idleTimestamp, portAudioInitialized>>]_vars
  /\ [](callsOf("shutdown") > 0 => playerStopped)

\* a player that was playing has been shut down, handed a segment and shut
\* down again
AudioShutdownIsFinalWitness ==
  /\ playerStopped
  /\ portAudioInitialized
  /\ \E i, j, k \in 1 .. Len(calls) :
       /\ i < j /\ j < k
       /\ calls[i] = "shutdown" /\ calls[j] = "enqueue" /\ calls[k] = "shutdown"

\* C25: no operation of the player lets an error of the output device out
\* to its caller.
DeviceErrorsContained == ~thrown

(***************************************************************************)
(* The segmenter.                                                          *)
(***************************************************************************)
\* C26: every segment splitIntoSegments returns is at most MAX_SEGMENT_CHARS
\* characters long, the merge of short segments included.
SegmentsWithinMaximum ==
  splitDone => \A i \in 1 .. Len(segments) : Len(segments[i]) <= MAX_SEGMENT_CHARS

withoutWhitespace(t) == SelectSeq(t, LAMBDA c : c \notin WHITESPACE)

RECURSIVE concatenation(_)
concatenation(segs) ==
  IF segs = <<>> THEN <<>> ELSE Head(segs) \o concatenation(Tail(segs))

\* C27: the segments, concatenated and with whitespace removed, are the input
\* with whitespace removed; an empty or whitespace-only input gives no
\* segment at all.
SegmentationRoundTrip ==
  splitDone =>
    /\ withoutWhitespace(concatenation(segments)) = withoutWhitespace(ttsText)
    /\ withoutWhitespace(ttsText) = <<>> => segments = <<>>

\* a text with a space in it was split into several segments, one of them
\* the result of a merge
SegmentationRoundTripWitness ==
  /\ splitDone
  /\ Len(segments) >= 2
  /\ \E i \in 1 .. Len(ttsText) : ttsText[i] \in WHITESPACE
  /\ Len(segments)
       < Len(splitFrom(tokenize(trim(collapseWhitespace(ttsText))), <<>>, <<>>))
  /\ \E i \in 1 .. Len(segments) : Len(segments[i]) > SHORT_SEGMENT_CHARS

(***************************************************************************)
(* extractTranscript.                                                      *)
(***************************************************************************)
\* the text of a string value, or nothing for any other value
textOf(value) ==
  IF value.type = "string" /\ trim(value.v) # <<>> THEN <<trim(value.v)>> ELSE <<>>

RECURSIVE encountered(_)
RECURSIVE encounteredIn(_)
encounteredIn(entries) ==
  IF entries = <<>> THEN <<>>
  ELSE encountered(Head(entries)) \o encounteredIn(Tail(entries))

\* the non-empty strings of a payload, trimmed, in the order of the
\* depth-first traversal: the fields transcript, text and value of an object,
\* then what is under partial, delta, content, item and items; the entries of
\* an array in order
encountered(node) ==
  IF node.type = "string" THEN textOf(node)
  ELSE IF node.type = "array" THEN encounteredIn(node.v)
  ELSE IF node.type # "object" THEN <<>>
  ELSE textOf(field(node, "transcript")) \o textOf(field(node, "text"))
       \o textOf(field(node, "value"))
       \o encountered(field(node, "partial")) \o encountered(field(node, "delta"))
       \o encountered(field(node, "content")) \o encountered(field(node, "item"))
       \o (IF field(node, "items").type = "array"
             THEN encounteredIn(field(node, "items").v) ELSE <<>>)

longest(seq) == { i \in 1 .. Len(seq) : \A j \in 1 .. Len(seq) : Len(seq[j]) <= Len(seq[i]) }

greatest(S) == CHOOSE i \in S : \A j \in S : j <= i

\* the places of a sequence at which a string occurs for the first time
firstSeen(seq) == { i \in 1 .. Len(seq) : \A j \in 1 .. i - 1 : seq[j] # seq[i] }

\* C28 as stated: extractTranscript returns the longest of the strings
\* encountered in its traversal, of several longest ones the one seen last,
\* and the empty string when there is none.
LongestSeenLast ==
  extracted =>
    LET seq == encountered(payload) IN
      transcript = IF seq = <<>> THEN <<>> ELSE seq[greatest(longest(seq))]

\* C28, amended: extractTranscript returns the longest of the distinct trimmed
\* strings encountered in its traversal, of several longest ones the one that
\* was first seen last (a string met again is passed over); it returns the
\* empty string when no non-empty string is found, whatever the payload is;
\* {delta: {items: [{transcript: "A"}, {text: "ABC"}]}} gives "ABC".
LongestDistinctFirstSeenLast ==
  extracted =>
    LET seq == encountered(payload) IN
      /\ transcript =
           IF seq = <<>> THEN <<>>
           ELSE seq[greatest(longest(seq) \cap firstSeen(seq))]
      /\ payload = obj([d \in {"delta"} |-> obj([i \in {"items"} |->
                      arr(<< obj([k \in {"transcript"} |-> str(<<"A">>)]),
                             obj([k \in {"text"} |-> str(<<"A", "B", "C">>)]) >>)])])
           => transcript = <<"A", "B", "C">>

\* a payload in which one of two longest strings is met again after the other
LongestDistinctFirstSeenLastWitness ==
  /\ extracted
  /\ LET seq == encountered(payload) IN
       /\ Cardinality({ seq[i] : i \in longest(seq) }) >= 2
       /\ greatest(longest(seq)) \notin firstSeen(seq)
       /\ transcript # seq[greatest(longest(seq))]

(***************************************************************************)
(* The classification of transcripts.                                      *)
(***************************************************************************)
\* the stage hints that name a final stage, in either case, and those that
\* name a partial one
finalStage(stageHint) == stageHint \in {"completed", "COMPLETED"}
partialStage(stageHint) == stageHint \in {"delta", "Delta"}

\* processTranscriptPayload was called with this text and this stage hint
payloadCall(text, stageHint) ==
  payloads' = Append(payloads, [text |-> text, stage |-> stageHint])

\* C29: processTranscriptPayload classifies in this order, whatever the case
\* of the stage hint: a final stage hands the text to handleFinalTranscript
\* and reports handled; otherwise a non-empty text becomes the partial
\* transcript and is reported handled; otherwise a partial stage clears the
\* partial transcript and reports handled; otherwise nothing changes and the
\* payload is reported not handled.
ClassificationOrder ==
  [][\A text \in PayloadTexts, stageHint \in PayloadStages :
       payloadCall(text, stageHint) =>
         IF finalStage(stageHint)
           THEN handed' = Append(handed, text) /\ handled'
         ELSE IF text # <<>>
           THEN /\ lastPartialTranscript' = text
                /\ UNCHANGED <<handed, speechFinal>>
                /\ handled'
         ELSE IF partialStage(stageHint)
           THEN /\ lastPartialTranscript' = <<>>
                /\ UNCHANGED <<handed, speechFinal>>
                /\ handled'
         ELSE /\ UNCHANGED <<lastPartialTranscript, handed, speechFinal>>
              /\ ~handled']_vars

\* a partial transcript was shown, and then a text came with a final stage in
\* capitals and was handed to handleFinalTranscript
ClassificationOrderWitness ==
  /\ Len(payloads) = 2
  /\ payloads[1] = [text |-> <<"h", "i">>, stage |-> "Delta"]
  /\ payloads[2] = [text |-> <<"h", "e", "l", "l", "o">>, stage |-> "COMPLETED"]
  /\ handed = << <<"h", "e", "l", "l", "o">> >>
  /\ lastPartialTranscript = <<>>
  /\ handled

\* C30: ensureTrailingPunctuation, on the trimmed text: a text that ends in a
\* terminal punctuation mark is left as it is; otherwise one that ends in a
\* polite ending gets the ideographic full stop; otherwise one that ends in a
\* Latin letter or a digit gets a period; any other is left as it is.  So
\* desu gets the full stop, hello the period, and "done." stays.
TrailingPunctuationRules ==
  [][\A text \in PayloadTexts, stageHint \in PayloadStages :
       payloadCall(text, stageHint) /\ finalStage(stageHint) /\ trim(text) # <<>> =>
         LET t == trim(text)
             last == t[Len(t)]
             out == speechFinal'[Len(speechFinal')]
         IN /\ Len(speechFinal') = Len(speechFinal) + 1
            /\ last \in TRAILING_PUNCTUATION => out = t
            /\ (last \notin TRAILING_PUNCTUATION /\ hasJapanesePoliteEnding(t))
                 => out = t \o <<"maru">>
            /\ ( /\ last \notin TRAILING_PUNCTUATION
                 /\ ~hasJapanesePoliteEnding(t)
                 /\ last \in LATIN_ENDING )
                 => out = t \o <<".">>
            /\ ( /\ last \notin TRAILING_PUNCTUATION
                 /\ ~hasJapanesePoliteEnding(t)
                 /\ last \notin LATIN_ENDING )
                 => out = t
            /\ text = <<"de", "su">> => out = <<"de", "su", "maru">>
            /\ text = <<"h", "e", "l", "l", "o">>
                 => out = <<"h", "e", "l", "l", "o", ".">>
            /\ text = <<"d", "o", "n", "e", ".">> => out = text]_vars

\* a polite sentence and a Latin word were both finalized
TrailingPunctuationRulesWitness ==
  /\ Len(payloads) = 2
  /\ payloads[1].text = <<"so", "u", "de", "su", "ka">>
  /\ payloads[2].text = <<" ", "h", "i", " ">>
  /\ speechFinal = << <<"so", "u", "de", "su", "ka", "maru">>, <<"h", "i", ".">> >>

(***************************************************************************)
(* The functions on PCM16 buffers.                                         *)
(***************************************************************************)
\* the greatest absolute value of a sample, 0 for the empty buffer
peakAbs(samples) ==
  IF samples = <<>> THEN 0
  ELSE CHOOSE p \in { abs(samples[i]) : i \in 1 .. Len(samples) } :
         \A i \in 1 .. Len(samples) : abs(samples[i]) <= p

sign(x) == IF x < 0 THEN -1 ELSE IF x > 0 THEN 1 ELSE 0

\* C31: normalize returns a buffer whose peak is 0 or at least 30000 as it
\* is; of any other buffer it returns one of the same length whose peak is
\* 30000, every sample with the sign it had and within [-32768, 32767].
PeakNormalization ==
  pcmOp = "normalize" =>
    IF peakAbs(pcm) = 0 \/ peakAbs(pcm) >= 30000
      THEN pcmOut = pcm
      ELSE /\ Len(pcmOut) = Len(pcm)
           /\ peakAbs(pcmOut) = 30000
           /\ \A i \in 1 .. Len(pcm) :
                /\ sign(pcmOut[i]) = sign(pcm[i])
                /\ pcmOut[i] \in -32768 .. 32767

\* a buffer with a negative peak below the threshold, a positive sample and
\* a zero was scaled
PeakNormalizationWitness ==
  /\ pcmOp = "normalize"
  /\ pcm = <<-20000, 1, 0>>
  /\ pcmOut = <<-30000, 2, 0>>

\* C35: resampleLinear returns floor(length * toRate / fromRate) samples for
\* every input length and every valid source rate other than the target
\* rate, and the input as it is when the source rate is not finite, not
\* positive, or the target rate.
ResamplingLength ==
  pcmOp = "resample" =>
    LET fromRate == pcmRates[1]
        toRate == pcmRates[2]
    IN IF ~fromRate.finite \/ fromRate.hz <= 0 \/ fromRate.hz = toRate
         THEN pcmOut = pcm
         ELSE Len(pcmOut) = (Len(pcm) * toRate) \div fromRate.hz

(***************************************************************************)
(* The flush tick, the idle stop and the notifications of the player.      *)
(***************************************************************************)
RECURSIVE copied(_)
\* the number of samples in the slices of a block
copied(slices) ==
  IF slices = <<>> THEN 0 ELSE Head(slices).count + copied(Tail(slices))

\* C32: a flush tick that finds the queue non-empty pushes exactly one block
\* of BLOCK_SIZE samples: the next min(BLOCK_SIZE, buffered) samples of the
\* queue, taken from its buffers in their order, the first from bufferOffset
\* on and every buffer but the last to its end, and zeros after them; the
\* buffered count goes down by that number.  A tick that finds the queue
\* empty pushes nothing.
FlushPushesOneBlock ==
  [][\A delay \in TickDelays, pushOk \in BOOLEAN :
       FlushTick(delay, pushOk) =>
         IF buffers # <<>>
           THEN LET n == min(BLOCK_SIZE, bufferedSampleCount) IN
                /\ Len(pushed') = 1
                /\ LET slices == pushed'[1].slices IN
                     /\ copied(slices) = n
                     /\ copied(slices) + pushed'[1].zeros = BLOCK_SIZE
                     /\ Len(slices) <= Len(buffers)
                     /\ \A j \in 1 .. Len(slices) :
                          /\ slices[j].length = buffers[j]
                          /\ slices[j].from = IF j = 1 THEN bufferOffset ELSE 0
                          /\ slices[j].count > 0
                          /\ j < Len(slices)
                               => slices[j].from + slices[j].count = buffers[j]
                /\ bufferedSampleCount' = bufferedSampleCount - n
           ELSE pushed' = <<>> /\ buffers' = <<>>]_vars

\* a block was pushed that takes the rest of one buffer and all of the next
\* and is padded with zeros
FlushPushesOneBlockWitness ==
  /\ Len(pushed) = 1
  /\ Len(pushed[1].slices) = 2
  /\ pushed[1].slices[1].from > 0
  /\ pushed[1].zeros > 0
  /\ buffers = <<>>

\* C33: a flush tick that finds the queue empty while playback is started
\* notes the time when none is noted, pauses the device (started = false,
\* flush timer cleared, 'stop' notified) when more than IDLE_TIMEOUT_MS have
\* gone by since the noted time, and leaves it playing otherwise; an enqueue
\* that is accepted clears the noted time; a flush tick that finds samples
\* buffered never pauses.
IdleAutoStop ==
  /\ [][\A delay \in TickDelays, pushOk \in BOOLEAN :
          FlushTick(delay, pushOk) =>
            IF buffers # <<>> THEN playerStarted' = playerStarted /\ timer'
            ELSE IF ~playerStarted THEN ~playerStarted'
            ELSE IF idleTimestamp = "null"
              THEN playerStarted' /\ timer' /\ idleTimestamp' = "set" /\ idleFor' = 0
            ELSE IF idleFor + delay > IDLE_TIMEOUT_MS
              THEN /\ ~playerStarted'
                   /\ ~timer'
                   /\ notified' = "stop"
                   /\ idleTimestamp' = "null"
              ELSE playerStarted' /\ timer' /\ idleTimestamp' = "set"]_vars
  /\ [][\A len \in SampleCounts, rate \in SampleRates, start \in StartOutcomes :
          (AudioEnqueue(len, rate, start) /\ Len(buffers') > Len(buffers))
            => idleTimestamp' = "null" /\ idleFor' = 0]_vars

\* exactly IDLE_TIMEOUT_MS after the first empty tick the device is still
\* playing
IdleAutoStopWitness ==
  /\ playerStarted
  /\ buffers = <<>>
  /\ idleTimestamp = "set"
  /\ idleFor = IDLE_TIMEOUT_MS

\* C34: whenever samples are buffered and the player has not been shut down,
\* playback is started or a prefill start is pending; the prefill timer is
\* never armed while playback is started.
NoStrandedAudio ==
  /\ (bufferedSampleCount > 0 /\ ~playerStopped) => (playerStarted \/ prefillTimer)
  /\ ~(prefillTimer /\ playerStarted)

\* C39: the flush timer is armed exactly when playback is started, and the
\* state last given to onStateChange is 'start' exactly when playback is
\* started.
PlayerStateConsistency ==
  /\ timer <=> playerStarted
  /\ notified = "start" <=> playerStarted

\* a player that was started has been paused and not shut down
PlayerStateConsistencyWitness ==
  /\ notified = "stop"
  /\ ~playerStarted
  /\ ~playerStopped
  /\ ~timer
  /\ portAudioInitialized

(***************************************************************************)
(* Part I, the invariants of the mode machine.                             *)
(***************************************************************************)
\* C36: targetIndex is -1 or an index into the current target list, and in
\* ACTIVE the list is non-empty and a target is selected.
SelectionInvariant ==
  /\ targetIndex = -1 \/ targetIndex \in 0 .. Len(targets) - 1
  /\ mode = "active" => Len(targets) > 0 /\ targetIndex # -1

\* a refresh that found the selected target gone in ACTIVE has put the mode
\* back to DETECT with nothing selected
SelectionInvariantWitness ==
  /\ message = "backToDetect"
  /\ mode = "detect"
  /\ targetIndex = -1
  /\ Len(targets) > 0

\* C37: between event handlers (cleanup leaves the process inside the
\* handler that called it, so in every state that is not closing) the DETECT
\* timeout is armed exactly in DETECT, the inactivity timeout exactly outside
\* OFF, and the countdown interval runs exactly when one of the two is
\* armed; the callback of the countdown interval changes neither the mode nor
\* a timeout.
TimerModeConsistency ==
  /\ [](~closing =>
         /\ detectModeExpiresAt # NULL <=> mode = "detect"
         /\ detectAutoOffTimer = "pending" <=> mode = "detect"
         /\ transcriptTimeoutExpiresAt # NULL <=> mode # "off"
         /\ transcriptAutoOffTimer = "pending" <=> mode # "off"
         /\ statusCountdownInterval
              <=> (detectModeExpiresAt # NULL \/ transcriptTimeoutExpiresAt # NULL))
  /\ [][StatusCountdownTick
          => UNCHANGED <<mode, detectModeExpiresAt, transcriptTimeoutExpiresAt,
                         detectAutoOffTimer, transcriptAutoOffTimer>>]_vars

\* ACTIVE reached from DETECT: the DETECT timeout is cleared, the inactivity
\* timeout is armed and the countdown runs
TimerModeConsistencyWitness ==
  /\ mode = "active"
  /\ message = "sendStarted"
  /\ detectModeExpiresAt = NULL
  /\ transcriptTimeoutExpiresAt # NULL
  /\ statusCountdownInterval
  /\ ~closing

\* C38: in OFF the microphone capture is stopped, sendCount is 0 and the
\* partial transcript shown is empty; outside OFF, unless the program is
\* closing, the capture is running.
OffIsQuiescent ==
  /\ mode = "off" => ~mic /\ sendCount = 0 /\ partialText = <<>>
  /\ (mode # "off" /\ ~closing) => mic

\* OFF reached by the inactivity timeout after frames were forwarded
OffIsQuiescentWitness ==
  /\ mode = "off"
  /\ message = "transcriptTimedOut"
  /\ ~mic
  /\ sendCount = 0
  /\ ~closing

(***************************************************************************)
(* Part X, the properties.                                                 *)
(***************************************************************************)
\* C40: a todo that addTodo has returned is in todoState.todos, with its id
\* and description, unless removeTodo has removed its id; and no id is given
\* out by two calls of addTodo.
TodosSurviveLoading ==
  /\ \A r \in todoReturned :
       r.id \notin todoRemoved
         => \E i \in 1 .. Len(todoState.todos) :
              /\ todoState.todos[i].id = r.id
              /\ todoState.todos[i].description = r.description
  /\ \A a, b \in todoAssigned : a.id = b.id => a.call = b.call

====
